---- MODULE Spec2Model ----
(***************************************************************************)
(* Model of the parachain commitment Scanner (relayer/relays/parachain):   *)
(* Scan -> findTasks -> findTasksImpl -> scanForBasicChannelProofs ->      *)
(* gatherProofInputs -> findInclusionBlockNumber.                          *)
(*                                                                         *)
(* The three chains are the environment.  Every RPC answer is drawn, at    *)
(* the moment the code asks for it, from a small set; the code asks for    *)
(* each parachain block, digest item and event list once per scan.         *)
(***************************************************************************)
EXTENDS Integers, Sequences, FiniteSets, TLC

\* ------------------------------------------------------------------ bounds
MaxBlock == 2          \* highest parachain head number of the free scenario
MaxNonce == 2          \* highest nonce of the free scenario
MaxDigestItems == 2    \* most auxiliary digest items in one header
MaxBundles == 2        \* most bundles in one Committed event
MaxBeefy == 1          \* highest BEEFY anchor block number
MaxRelayParent == 1    \* highest relay_parent_number in validation data
MaxProofItems == 2     \* most items in one merkle proof
MaxPeaks == 2          \* most peaks in restOfThePeaks
MaxBitIndex == 2       \* highest bit of the order bit field that may be set
MaxLatestBlock == 3    \* highest parachain block of the catch-up
MaxJustifications == 2 \* most justifications the subscription delivers
MaxPackets == 2        \* most message packages of one justification
MaxCap == 1            \* largest capacity of the messages channel
MaxEthBlock == 2       \* highest Ethereum block a header arrives for
MaxItems == 2          \* most items in the BEEFY database
MaxMessages == 2       \* most messages in one commitment

\* --------------------------------------------------------- program constants
FinalizationTimeout == 4

\* s.paraID, the configured parachain
ParaID == 1000

\* s.accounts, the watched accounts
Accounts == {"A", "B"}

\* commitment hashes / merkle roots
Hashes == {"h1", "h2"}

\* two headers of one number differ in their state root
StateRoots == {"s0", "s1"}

\* a failed RPC call (as a merkle root, as a storage value)
RpcError == "RpcError"
RpcFailed == -2

\* GetStorage answered ok = false
NotFound == -1

\* QueryEvent returned nil
NoEvents == [Present |-> FALSE, Hash |-> "h1", Bundles |-> <<>>]

\* no block is being visited
NoHeader == [Number |-> 0, StateRoot |-> "s0"]

\* the scenarios the chains are drawn from
Scenarios == {"walk", "inclusion", "S3"}

VARIABLES
    pc,                              \* position of the scan
    scenario,                        \* which chain the RPCs answer from
    beefyBlockNumber,                \* argument of Scan
    lastParaBlockNumber,             \* paraBlockNumber of Scan / findTasksImpl
    ethBasicNonce,                   \* account -> nonce read on Ethereum
    paraBasicNonce,                  \* account -> nonce read on the parachain
    basicChannelAccountNonces,       \* account -> nonce to find
    basicChannelScanAccounts,        \* accounts still searched for
    scanBasicChannelDone,            \* loop flag of findTasksImpl
    currentBlockNumber,              \* loop variable of findTasksImpl
    header,                          \* header of the block being visited
    digestLen,                       \* len(digestItems) of that header
    itemIndex,                       \* position in the digest item loop
    events,                          \* result of QueryEvent for the block
    basicChannelProofs,              \* proofs of the block being visited
    tasks,                           \* tasks of findTasksImpl / findTasks
    taskIndex,                       \* position of gatherProofInputs
    startBlock,                      \* findInclusionBlockNumber: startBlock
    relayI,                          \* findInclusionBlockNumber: i
    result,                          \* task list returned by Scan
    err,                             \* error returned by Scan
    gatherErr,                       \* error returned by gatherProofInputs
    examined,                        \* blocks the walk has inspected
    blockFetched,                    \* all proofs the fetcher returned for the block
    dropped,                         \* a task lacked a proof fetched for its block
    doneReason,                      \* account -> why it left the scan set
    hashDisagree,                    \* a digest item differed from the event
    checkedMismatch,                 \* ... while an account was searched for
    eventsAbsent,                    \* a commitment item met a block without events
    compared,                        \* the nonce comparison was made
    discarded,                       \* a failing scan threw away tasks it had built
    cancelled,                       \* the caller's context has been cancelled
    headAbsent,                      \* the relay chain reported no head at beefy - 1
    beefyBlockMinusOne,              \* the height Scan asked the relay block hash of
    chain,                           \* the chains of a scan that is repeated
    run,                             \* which execution of Scan this is
    first,                           \* what the first execution returned
    storedNonce,                     \* account -> nonce storage at the starting head
    mpc,                             \* position in verifyMerkleRoot
    root,                            \* verifyMerkleRoot: root
    leafNodeHash,                    \* calculateMerkleRoot: leafNodeHash
    merkleProofItems,                \* calculateMerkleRoot: merkleProofItems
    merkleProofOrderBitField,        \* calculateMerkleRoot: merkleProofOrderBitField
    siblingLeftAt,                   \* the levels whose bit the prover set
    currentPosition,                 \* calculateMerkleRoot: currentPosition
    currentHash,                     \* calculateMerkleRoot: currentHash
    merkleRoot,                      \* value returned by calculateMerkleRoot
    verified,                        \* value returned by verifyMerkleRoot
    caller,                          \* the function that was called
    restOfThePeaks,                  \* proof.restOfThePeaks
    rightBaggedPeak,                 \* proof.rightBaggedPeak
    reversedPeaks,                   \* verifyInclusionProof: reversedPeaks
    bag,                             \* bagPeaks: bag
    currentIndex,                    \* bagPeaks: currentIndex
    lpc,                             \* position of the Listener's catch-up
    latestBlock,                     \* argument of catchupMissedCommitments
    parachain,                       \* block -> the commitment of that block
    delivered,                       \* channel -> nonce delivered on Ethereum
    basicNonceToFind,                \* searchForLostCommitments: basicNonceToFind
    incentivizedNonceToFind,         \* ... incentivizedNonceToFind
    lostBlockNumber,                 \* ... currentBlockNumber
    basicNonceFound,                 \* ... basicNonceFound
    incentivizedNonceFound,          \* ... incentivizedNonceFound
    digestItems,                     \* ... digestItems
    processed,                       \* the items passed to processDigestItem
    catchupErr,                      \* error returned by catchupMissedCommitments
    epc,                             \* position of pollEventsAndHeaders
    ectxDone,                        \* the context of the BeefyEthereumListener is cancelled
    ethEvents,                       \* Ethereum block -> the LightClientBridge event in it
    beefyDB,                         \* item id -> the item in the BEEFY database
    blockWaitPeriod,                 \* li.blockWaitPeriod
    descendantsUntilFinal,           \* argument of Start
    liveBlockNumber,                     \* number of the header being handled
    handlerIndex,                    \* which call of the header's case is next
    dbMessages,                      \* the commands sent on li.dbMessages
    beefyMessages,                   \* the items sent on li.beefyMessages
    bpc,                             \* position of subBeefyJustifications
    bctxDone,                        \* the context of the BeefyListener is cancelled
    messagesCap,                     \* capacity of the channel li.messages
    messages,                        \* number of packages held by li.messages
    messagePackets,                  \* packages of the loop still to be sent
    justifications,                  \* justifications received from the subscription
    sent,                            \* packages sent on li.messages
    closes,                          \* times li.messages was closed
    receiving                        \* the consumer of li.messages still receives

vars == <<pc, scenario, beefyBlockNumber, lastParaBlockNumber, ethBasicNonce,
          paraBasicNonce, basicChannelAccountNonces, basicChannelScanAccounts,
          scanBasicChannelDone, currentBlockNumber, header, digestLen,
          itemIndex, events, basicChannelProofs, tasks, taskIndex, startBlock,
          relayI, result, err, gatherErr, examined, blockFetched, dropped,
          doneReason,
          hashDisagree, checkedMismatch, eventsAbsent, compared, storedNonce,
          discarded, cancelled, chain, run, first, headAbsent, beefyBlockMinusOne,
          mpc, root, leafNodeHash, merkleProofItems, merkleProofOrderBitField,
          siblingLeftAt, currentPosition, currentHash, merkleRoot, verified, caller, restOfThePeaks, rightBaggedPeak,
          reversedPeaks, bag, currentIndex,
          lpc, latestBlock, parachain, delivered, basicNonceToFind,
          incentivizedNonceToFind, lostBlockNumber, basicNonceFound,
          incentivizedNonceFound, digestItems, processed, catchupErr,
          epc, ectxDone, ethEvents, beefyDB, blockWaitPeriod, descendantsUntilFinal,
          liveBlockNumber, handlerIndex, dbMessages, beefyMessages,
          bpc, bctxDone, messagesCap, messages, messagePackets, justifications,
          sent, closes, receiving>>

\* ------------------------------------------------------------ environment
\* The answers of the three chains.  Scenario "walk" draws the parachain
\* blocks freely and lets every parachain block be included at once;
\* scenario "inclusion" draws the relay chain freely over a parachain on
\* which one account commits one bundle per block; scenario "S3" is the
\* chain of the specification's scenario S3.
Range(s) == {s[k] : k \in DOMAIN s}

SeqsUpTo(S, n) == UNION {[1..m -> S] : m \in 0..n}

\* header of parachain block n as the parachain node serves it
ParaHeader(n) == [Number |-> n, StateRoot |-> "s0"]

\* blocks of scenario S3 that carry a commitment
S3Bundles(b) ==
    CASE b = 98 -> <<[Account |-> "A", Nonce |-> 6], [Account |-> "B", Nonce |-> 4]>>
      [] b = 95 -> <<[Account |-> "A", Nonce |-> 7]>>
      [] b = 92 -> <<[Account |-> "A", Nonce |-> 8]>>
      [] OTHER -> <<>>

\* FetchParachainHead answered ok = false, or failed
NotRegistered == [Number |-> -1, StateRoot |-> "s0"]
HeadFailed == [Number |-> -2, StateRoot |-> "s0"]

\* QueryEvent failed
EventsFailed == [Present |-> FALSE, Hash |-> RpcError, Bundles |-> <<>>]

\* ---- scenario "fixed": chains that answer every request the same way ----
\* a commitment digest item, and another digest item
Commitment(h) == [IsCommitment |-> TRUE, Hash |-> h]
OtherItem == [IsCommitment |-> FALSE, Hash |-> "h1"]

Committed(bundles) == [Present |-> TRUE, Hash |-> "h1", Bundles |-> bundles]

Bundle(a, n) == [Account |-> a, Nonce |-> n]

\* what a block of a fixed chain holds: its digest items, its Committed
\* event and the root of the Merkle proof of each bundle
BlockContents ==
    { [items |-> <<>>, event |-> NoEvents, roots |-> <<>>],
      [items |-> <<OtherItem, Commitment("h1")>>,
       event |-> Committed(<<Bundle("A", 2)>>), roots |-> <<"h1">>],
      [items |-> <<Commitment("h1")>>,
       event |-> Committed(<<Bundle("B", 1), Bundle("A", 1)>>), roots |-> <<"h1", "h1">>],
      [items |-> <<Commitment("h1"), Commitment("h1")>>,
       event |-> Committed(<<Bundle("A", 2), Bundle("B", 1)>>), roots |-> <<"h1", "h1">>],
      [items |-> <<Commitment("h1")>>,
       event |-> Committed(<<Bundle("A", 1)>>), roots |-> <<"h2">>],
      [items |-> <<Commitment("h2")>>,
       event |-> Committed(<<Bundle("A", 1)>>), roots |-> <<"h1">>],
      [items |-> <<Commitment("h1")>>, event |-> NoEvents, roots |-> <<>>],
      [items |-> <<Commitment("h1"), Commitment("h1")>>,
       event |-> Committed(<<Bundle("A", 1)>>), roots |-> <<"h1">>],
      [items |-> <<Commitment("h1")>>,
       event |-> Committed(<<Bundle("B", 1)>>), roots |-> <<"h1">>] }

\* the heads the relay chain registers at the blocks of an inclusion window:
\* block 1 at once and block 2 one relay block later, or no block at all, or
\* the parachain deregistered
RelayHeadMaps ==
    { [i \in 1..FinalizationTimeout |-> [Number |-> IF i = 1 THEN 1 ELSE 2,
                                         StateRoot |-> "s0"]],
      [i \in 1..FinalizationTimeout |-> [Number |-> 0, StateRoot |-> "s0"]],
      [i \in 1..FinalizationTimeout |-> [Number |-> -1, StateRoot |-> "s0"]] }

FixedChains ==
    [head : {[Number |-> n, StateRoot |-> "s0"] : n \in {-1, 1, 2}},
     eth : {[a \in Accounts |-> 0]},
     para : {[a \in Accounts |-> IF a = "A" THEN 2 ELSE n] : n \in {0, 1}},
     blocks : [1..2 -> BlockContents],
     validation : {-1, 0},
     relay : RelayHeadMaps]

\* the value of chain in the scenarios that draw every answer afresh
NoChain == CHOOSE c \in FixedChains : TRUE

\* arguments of Scan
BeefyNumbers(sc) == IF sc = "inclusion" THEN 0..MaxBeefy ELSE {1}

\* beefyBlockNumber is a uint64.  A value of 2^63 or more is written as its
\* two's complement (the value minus 2^64); Top64 is the value 2^64 - 1
Top64 == -1

\* uint64(beefyBlockNumber - 1)
BeefyBlockMinusOne(beefy) == IF beefy = 0 THEN Top64 ELSE beefy - 1

\* answers of FetchParachainHead at relay block beefyBlockNumber - 1
HeadChoices(sc) ==
    CASE sc = "S3" -> {ParaHeader(99), ParaHeader(100)}
      [] sc = "fixed" -> {chain.head}
      [] OTHER -> {NotRegistered, HeadFailed} \cup {ParaHeader(n) : n \in 0..MaxBlock}

\* GetBlockHash, GetHeader or ExtractAuxiliaryDigestItems failing for a block
HeaderFailures(sc) == IF sc = "walk" THEN {RpcFailed} ELSE {}

\* do the RPC calls of the nonce comparison and of the walk succeed
WalkRpcOks(sc) == IF sc = "walk" THEN BOOLEAN ELSE {TRUE}

\* does GetBlockHash of the relay chain succeed at a height: the node's
\* answer for a height the chain does not have is not known
RelayHashOks(sc, height) == IF height = Top64 THEN BOOLEAN ELSE WalkRpcOks(sc)

\* do the RPC calls of gatherProofInputs succeed
GatherRpcOks(sc) == IF sc \in {"walk", "fixed"} THEN {TRUE} ELSE BOOLEAN

EthNonceMaps(sc) ==
    CASE sc = "S3" -> {[a \in Accounts |-> IF a = "A" THEN 5 ELSE 3]}
      [] sc = "inclusion" -> {[a \in Accounts |-> 0]}
      [] sc = "fixed" -> {chain.eth}
      [] OTHER -> [Accounts -> 0..(MaxNonce - 1)]

\* answers of GetStorage(BasicOutboundChannel.Nonce)
ParaNonceMaps(sc) ==
    CASE sc = "S3" -> {[a \in Accounts |-> IF a = "A" THEN 8 ELSE 4]}
      [] sc = "inclusion" -> {[a \in Accounts |-> IF a = "A" THEN MaxNonce ELSE 0]}
      [] sc = "fixed" -> {chain.para}
      [] OTHER -> [Accounts -> {NotFound, 1, MaxNonce}]

\* the same storage at the latest parachain block: unchanged since the
\* starting head, or every account at the highest nonce
LatestNonceMaps(sc) ==
    IF sc = "walk" THEN {[a \in Accounts |-> MaxNonce], [a \in Accounts |-> NotFound]}
    ELSE {[a \in Accounts |-> MaxNonce]}

\* the scenarios in which the caller may cancel the scan
CancelScenarios == {"inclusion", "S3"}

BundleChoices == [Account : Accounts, Nonce : 1..MaxNonce]

\* len(digestItems) of the header of block b
DigestLens(sc, b) ==
    CASE sc = "S3" -> (IF S3Bundles(b) = <<>> THEN {0} ELSE {1})
      [] sc = "inclusion" -> {0, 1}
      [] sc = "fixed" -> {Len(chain.blocks[b].items)}
      [] OTHER -> 0..MaxDigestItems

\* answers of QueryEvent for block b; hashes are only ever compared, so the
\* event of a block carries "h1" and the other hashes differ from it
EventChoices(sc, b) ==
    CASE sc = "S3" -> {[Present |-> TRUE, Hash |-> "h1", Bundles |-> S3Bundles(b)]}
      [] sc = "inclusion" ->
           {[Present |-> TRUE, Hash |-> "h1",
             Bundles |-> <<[Account |-> "A", Nonce |-> n]>>] : n \in 1..MaxNonce}
      [] sc = "fixed" -> {chain.blocks[b].event}
      [] OTHER ->
           {NoEvents, EventsFailed}
           \cup [Present : {TRUE}, Hash : {"h1"},
                 Bundles : SeqsUpTo(BundleChoices, MaxBundles)]

\* digest item i of the header of block b
DigestItemChoices(sc, b, i) ==
    CASE sc = "walk" -> {[IsCommitment |-> FALSE, Hash |-> "h1"]}
                        \cup [IsCommitment : {TRUE}, Hash : Hashes]
      [] sc = "fixed" -> {chain.blocks[b].items[i]}
      [] OTHER -> {[IsCommitment |-> TRUE, Hash |-> "h1"]}

\* answers of basicOutboundChannel_getMerkleProof for the n bundles of block
\* b, one per bundle index; a failing call ends the scan whichever bundle it
\* is made for
RootChoices(sc, b, n) ==
    CASE sc = "walk" -> [1..n -> Hashes] \cup {[k \in 1..n |-> RpcError]}
      [] sc = "fixed" -> {chain.blocks[b].roots}
      [] OTHER -> [1..n -> {"h1"}]

\* RelayParentNumber, startBlock and i are uint32.  A value of 2^31 or more
\* is written as its two's complement (the value minus 2^32), so that
\* addition modulo 2^32 is addition; NearTop32 is the value 2^32 - 3
NearTop32 == -3

\* variant: the loop test of the inclusion search admits its upper bound
Less32_OrEqual(a, b) == IF (a < 0) = (b < 0) THEN a <= b ELSE b < 0

\* a < b on uint32
Less32(a, b) == IF (a < 0) = (b < 0) THEN a < b ELSE b < 0

\* answers of GetStorage(ParachainSystem.ValidationData): RelayParentNumber
ValidationDataChoices(sc) ==
    CASE sc = "walk" -> {0}
      [] sc = "fixed" -> {chain.validation}
      [] sc = "inclusion" -> {RpcFailed, NotFound, NearTop32} \cup 0..MaxRelayParent
      [] OTHER -> {RpcFailed, NotFound} \cup 0..MaxRelayParent

\* answers of FetchParachainHead at relay block i of the inclusion window of
\* parachain block n
RelayHeadChoices(sc, n, i) ==
    CASE sc = "walk" -> {ParaHeader(n)}
      [] sc = "fixed" -> {chain.relay[i]}
      [] sc = "S3" -> {NotRegistered, HeadFailed}
                      \cup [Number : {97, 98}, StateRoot : StateRoots]
      [] OTHER -> {NotRegistered, HeadFailed}
                  \cup [Number : 0..MaxBlock, StateRoot : StateRoots]

\* heads of the other parachains registered on the relay chain (lower para id)
OtherParaHeads == <<[Number |-> 0, StateRoot |-> "s1"]>>

\* ------------------------------------------------ scanForBasicChannelProofs
\* variant: a bundle is checked while any account is searched for
ShouldCheckAccount_WhileAnySearched(scanAccounts, account) == scanAccounts # {}

\* variant: bundles of every account are checked
ShouldCheckAccount_Always(scanAccounts, account) == TRUE

\* _, shouldCheckAccount := basicChannelScanAccounts[bundle.Account]
ShouldCheckAccount(scanAccounts, account) == account \in scanAccounts

\* nonceToFind := basicChannelAccountNonces[bundle.Account]; a Go map read
\* of a missing key yields the zero value
NonceToFind(nonces, account) ==
    IF account \in DOMAIN nonces THEN nonces[account] ELSE 0

\* variant: bundles below the nonce to find do not halt the account
NotCommittedYet_Never(bundleNonce, nonceToFind) == FALSE

\* bundleNonce < nonceToFind: the nonce to find has not been committed yet
NotCommittedYet(bundleNonce, nonceToFind) == bundleNonce < nonceToFind

\* variant: the root of the fetched proof is not compared
RootMismatch_Never(proofRoot, digestItemHash) == FALSE

\* basicChannelBundleProof.Proof.Root != digestItemHash
RootMismatch(proofRoot, digestItemHash) == proofRoot # digestItemHash

\* variant: bundles above the nonce to find are not collected
IsLaterNonce_Never(bundleNonce, nonceToFind) == FALSE

\* bundleNonce > nonceToFind: collect these commitments
IsLaterNonce(bundleNonce, nonceToFind) == bundleNonce > nonceToFind

\* variant: the nonce to find is never recognised
IsNonceToFind_Never(bundleNonce, nonceToFind) == FALSE

\* bundleNonce == nonceToFind: collect this commitment and terminate scan
IsNonceToFind(bundleNonce, nonceToFind) == bundleNonce = nonceToFind

\* variant: the emptied scan set is not reported
markAccountScanDone_NeverDone(scanAccounts, account) ==
    [accounts |-> scanAccounts \ {account}, done |-> FALSE]

\* variant: the account is not deleted from the scan set
markAccountScanDone_KeepsAccount(scanAccounts, account) ==
    [accounts |-> scanAccounts, done |-> scanAccounts = {}]

\* delete(scanBasicChannelAccounts, accountID);
\* return len(scanBasicChannelAccounts) == 0
markAccountScanDone(scanAccounts, account) ==
    [accounts |-> scanAccounts \ {account},
     done |-> (scanAccounts \ {account}) = {}]

\* variant: the proof is requested for the first bundle of the commitment
fetchBundleProof_FirstIndex(commitmentHash, bundleIndex, bundle, rpcRoot) ==
    [err |-> rpcRoot = RpcError,
     proof |-> [Bundle |-> bundle,
                Proof |-> [Root |-> rpcRoot],
                Request |-> [Commitment |-> commitmentHash, Index |-> 0]]]

\* the proof the parachain answers for (commitmentHash, bundleIndex); rpcRoot
\* is the root of the decoded answer, RpcError when the call fails
fetchBundleProof(commitmentHash, bundleIndex, bundle, rpcRoot) ==
    [err |-> rpcRoot = RpcError,
     proof |-> [Bundle |-> bundle,
                Proof |-> [Root |-> rpcRoot],
                Request |-> [Commitment |-> commitmentHash, Index |-> bundleIndex]]]

RECURSIVE scanBundlesFrom(_, _, _, _, _, _)
scanBundlesFrom(k, digestItemHash, nonces, bundles, roots, st) ==
    IF k > Len(bundles) \/ st.err THEN st
    ELSE
      LET bundle == bundles[k]
          bundleIndex == k - 1
          mark == markAccountScanDone(st.accounts, bundle.Account)
          marked(s0, why) ==
              [s0 EXCEPT !.accounts = mark.accounts,
                         !.scanDone = mark.done,
                         !.halts = Append(@, [account |-> bundle.Account,
                                              why |-> why])]
      IN
      IF ~ShouldCheckAccount(st.accounts, bundle.Account)
      THEN scanBundlesFrom(k + 1, digestItemHash, nonces, bundles, roots, st)
      ELSE
        LET nonceToFind == NonceToFind(nonces, bundle.Account)
            bundleNonce == bundle.Nonce
        IN
        IF NotCommittedYet(bundleNonce, nonceToFind)
        THEN scanBundlesFrom(k + 1, digestItemHash, nonces, bundles, roots,
                             marked(st, "below"))
        ELSE
          LET fetched == fetchBundleProof(digestItemHash, bundleIndex, bundle, roots[k])
              asked == [st EXCEPT !.fetches = Append(@, bundleIndex)]
          IN
          IF fetched.err THEN [asked EXCEPT !.err = TRUE]
          ELSE IF RootMismatch(fetched.proof.Proof.Root, digestItemHash)
          THEN scanBundlesFrom(k + 1, digestItemHash, nonces, bundles, roots,
                               marked(asked, "mismatch"))
          ELSE IF IsLaterNonce(bundleNonce, nonceToFind)
          THEN scanBundlesFrom(k + 1, digestItemHash, nonces, bundles, roots,
                               [asked EXCEPT !.proofs = Append(@, fetched.proof)])
          ELSE IF IsNonceToFind(bundleNonce, nonceToFind)
          THEN scanBundlesFrom(k + 1, digestItemHash, nonces, bundles, roots,
                               [marked(asked, "found") EXCEPT
                                   !.proofs = Append(@, fetched.proof)])
          ELSE scanBundlesFrom(k + 1, digestItemHash, nonces, bundles, roots, asked)

\* variant: the nonce to find of an account marked done is deleted as well
scanForBasicChannelProofs_DeletesTarget(digestItemHash, nonces, scanAccounts, bundles, roots) ==
    LET r == scanBundlesFrom(1, digestItemHash, nonces, bundles, roots,
                             [proofs |-> <<>>, scanDone |-> FALSE,
                              accounts |-> scanAccounts, nonces |-> nonces,
                              halts |-> <<>>, fetches |-> <<>>, err |-> FALSE])
        kept == {a \in DOMAIN nonces : a \notin scanAccounts \/ a \in r.accounts}
    IN [r EXCEPT !.nonces = [a \in kept |-> nonces[a]]]

\* result.proofs, result.scanDone, the scan set and the map of nonces to
\* find as the call leaves them (the map is only read), the accounts it
\* marked done (and why), the bundle indexes it asked a proof for and whether
\* it returned an error
scanForBasicChannelProofs(digestItemHash, nonces, scanAccounts, bundles, roots) ==
    scanBundlesFrom(1, digestItemHash, nonces, bundles, roots,
                    [proofs |-> <<>>, scanDone |-> FALSE, accounts |-> scanAccounts,
                     nonces |-> nonces,
                     halts |-> <<>>, fetches |-> <<>>, err |-> FALSE])

\* --------------------------------------------------------------------- Scan
\* variant: a parachain without a head is scanned all the same
Registered_Always(paraHead) == TRUE

\* ok of FetchParachainHead: if !ok { return nil, "parachain is not registered" }
Registered(paraHead) == paraHead # NotRegistered

\* ---------------------------------------------------------------- findTasks
\* variant: the nonce is read at the latest parachain block
GetStorage_Latest(storage, at) == storage["latest"]

\* GetStorage(paraBasicNonceKey, &paraBasicNonce, paraHash): the storage
\* of the parachain at a block hash
GetStorage(storage, at) == storage[at]

\* if !ok { paraBasicNonce = 0 }
ParaBasicNonce(stored) == IF stored = NotFound THEN 0 ELSE stored

\* if paraBasicNonce > ethBasicNonce { toFind[account] = ethBasicNonce + 1 }
NoncesToFind(eth, para) ==
    [a \in {x \in Accounts : para[x] > eth[x]} |-> eth[a] + 1]

\* variant: no call looks at the context
ContextDone_Ignored(ctxCancelled) == FALSE

\* the calls that are handed ctx (basicContract.Nonce through
\* bind.CallOpts.Context, eventQueryClient.QueryEvent) fail once it is cancelled
ContextDone(ctxCancelled) == ctxCancelled

\* variant: findTasksImpl is called whatever the comparison found
NothingToFind_Never(toFind) == FALSE

\* len(basicChannelAccountNoncesToFind) == 0
NothingToFind(toFind) == DOMAIN toFind = {}

\* ------------------------------------------------------------ findTasksImpl
\* variant: the walk goes on to block 0
LoopContinues_IncludesZero(scanDone, blockNumber) == ~scanDone /\ blockNumber >= 0

\* variant: the walk stops above block 1
LoopContinues_StopsAtOne(scanDone, blockNumber) == ~scanDone /\ blockNumber > 1

\* for !scanBasicChannelDone && currentBlockNumber > 0
LoopContinues(scanDone, blockNumber) == ~scanDone /\ blockNumber > 0

\* variant: a block without events is walked on
EventsMissing_Never(ev) == FALSE

\* events == nil
EventsMissing(ev) == ~ev.Present

\* variant: the digest item is not compared with the event
CommitmentHashMismatch_Never(eventsHash, digestItemHash) == FALSE

\* events.Hash != digestItemHash
CommitmentHashMismatch(eventsHash, digestItemHash) == eventsHash # digestItemHash

\* basicChannelProofs = result.proofs
CollectProofs(blockProofs, resultProofs) == resultProofs

\* sort.SliceStable(tasks, less by Header.Number): stable insertion
RECURSIVE InsertTask(_, _)
InsertTask(sorted, t) ==
    IF sorted = <<>> THEN <<t>>
    ELSE IF t.Header.Number < sorted[Len(sorted)].Header.Number
         THEN Append(InsertTask(SubSeq(sorted, 1, Len(sorted) - 1), t),
                     sorted[Len(sorted)])
         ELSE Append(sorted, t)

RECURSIVE SortedPrefix(_, _)
SortedPrefix(ts, n) ==
    IF n = 0 THEN <<>> ELSE InsertTask(SortedPrefix(ts, n - 1), ts[n])

\* variant: the tasks are left in the order of the walk
SortTasks_Unsorted(ts) == ts

SortTasks(ts) == SortedPrefix(ts, Len(ts))

\* variant: the first registered head of the window is taken
HeadMatches_Always(paraBlockNumber, paraHead) == TRUE

\* headers compared by findInclusionBlockNumber:
\* paraBlockNumber == uint64(paraHead.Number)
HeadMatches(paraBlockNumber, paraHead) == paraBlockNumber = paraHead.Number

\* s.gatherProofInputs(tasks); return tasks, nil -- the error is dropped
findTasksReturn(ts, gerr) == [tasks |-> ts, err |-> "none"]

\* parachainHeads of FetchParachainHeads at a relay block where the
\* configured parachain's head is paraHead
FetchParachainHeads(paraHead) == OtherParaHeads \o <<paraHead>>

\* ------------------------------------------------ SimplifiedMMRVerification
\* keccak256(abi.encodePacked(l, r)): two packed words, hashed without
\* collisions
keccak256(l, r) == "H(" \o l \o "," \o r \o ")"

\* the zero word
NoHash == "0"

LeafHashes == {"a", "b"}
SiblingHashes == {"x", "y"}

\* the roots a caller passes: right for some proofs, wrong for the others
RootChoices32 == {"a", keccak256("x", "a"), keccak256(keccak256("x", "a"), "y")}

\* the peaks a prover passes
PeakHashes == {"p", "q"}
RightPeaks == {NoHash, "r"}

\* require(proof.merkleProofItems.length < 64)
ProofItemsLimit == 64

\* a proof of as many items as the limit
LongProof == [i \in 1..ProofItemsLimit |-> "x"]

\* the roots a caller of verifyInclusionProof passes
RootChoicesInclusion ==
    RootChoices32 \cup
    {keccak256("r", "a"),
     keccak256(keccak256("a", "p"), "q"),
     keccak256(keccak256(keccak256("r", keccak256("x", "a")), "p"), "q")}

\* variant: the rest of the peaks is taken in the order of the proof
ReversedPeaks_InOrder(right, merkleRootPeak, rest) ==
    (IF right # NoHash THEN <<right>> ELSE <<>>) \o <<merkleRootPeak>> \o rest

\* reversedPeaks of verifyInclusionProof: the right bagged peak if it is not
\* zero, the peak of the leaf, the rest of the peaks from the last to the first
ReversedPeaks(right, merkleRootPeak, rest) ==
    (IF right # NoHash THEN <<right>> ELSE <<>>) \o <<merkleRootPeak>>
       \o [i \in 1..Len(rest) |-> rest[Len(rest) - (i - 1)]]

\* the uint64 whose set bits are the levels of S
RECURSIVE BitField(_)
BitField(S) ==
    IF S = {} THEN 0
    ELSE LET i == CHOOSE k \in S : TRUE IN 2^i + BitField(S \ {i})

\* variant: the bit field is read from bit 1
bit_OneBased(self, index) == ((self \div (2^(index + 1))) % 2) = 1

\* bit(self, index): uint8(self >> index & 1) == 1
bit(self, index) == ((self \div (2^index)) % 2) = 1

\* ------------------------------------------------- Listener (catch-up)
Channels == {"basic", "incentivized"}

\* a block whose header has no commitment digest item
NoCommitment == [channel |-> "none", count |-> 0]

\* the parachains of the catch-up: a block commits nothing, or count messages
\* of one channel
Parachains ==
    [0..MaxLatestBlock ->
        {NoCommitment} \cup [channel : Channels, count : 1..MaxMessages]]

\* the nonce of channel c when block b begins
RECURSIVE NonceBefore(_, _, _)
NonceBefore(p, c, b) ==
    IF b = 0 THEN 0
    ELSE NonceBefore(p, c, b - 1)
           + (IF p[b - 1].channel = c THEN p[b - 1].count ELSE 0)

\* the Nonce storage of channel c at the latest parachain block; an outbound
\* channel that has sent nothing has no value stored
NonceStorageLatest(p, c) ==
    LET n == NonceBefore(p, c, MaxLatestBlock + 1)
    IN IF n = 0 THEN NotFound ELSE n

\* the nonces Ethereum may have accepted: whole commitments, in order
DeliveredChoices(p) ==
    {d \in [Channels -> 0..(MaxMessages * (MaxLatestBlock + 1))] :
        \A c \in Channels :
            \E b \in 0..(MaxLatestBlock + 1) : d[c] = NonceBefore(p, c, b)}

\* getAuxiliaryDigestItem of the header of block b, with the messages
\* getMessagesForDigestItem reads for it
DigestItemOf(p, b) ==
    [block |-> b, IsCommitment |-> p[b].channel # "none", ChannelID |-> p[b].channel,
     messages |-> {NonceBefore(p, p[b].channel, b) + k : k \in 1..p[b].count}]

\* variant: the absent incentivized nonce resets the incentivized nonce
ParaNonces_OwnReset(basic, incentivized) ==
    [basic |-> IF basic = NotFound THEN 0 ELSE basic,
     incentivized |-> IF incentivized = NotFound THEN 0 ELSE incentivized]

\* paraBasicNonce and paraIncentivizedNonce after the two GetStorageLatest
\* calls of catchupMissedCommitments and their !ok branches
ParaNonces(basic, incentivized) ==
    LET basicNonce == IF basic = NotFound THEN 0 ELSE basic
        incentivizedNonce == IF incentivized = NotFound THEN 0 ELSE incentivized
    IN [basic |-> IF incentivized = NotFound THEN 0 ELSE basicNonce,
        incentivized |-> incentivizedNonce]

\* the test before searchForLostCommitments is called
NothingMissed(eth, para) ==
    eth["basic"] = para.basic /\ eth["incentivized"] = para.incentivized

checkIfDigestItemContainsNonce(digestItem, nonceToFind) ==
    \E nonce \in digestItem.messages : nonce <= nonceToFind

\* variant: the loop goes on down to block 0 whatever was found
SearchContinues_ToZero == lostBlockNumber # 0

\* the loop test of searchForLostCommitments
SearchContinues ==
    (basicNonceFound = FALSE \/ incentivizedNonceFound = FALSE) /\ lostBlockNumber # 0

Reverse(s) == [k \in 1..Len(s) |-> s[Len(s) + 1 - k]]

\* ----------------------------------------------------- BeefyEthereumListener
\* the statuses of an item of the BEEFY database
Statuses == {"CommitmentWitnessed", "InitialVerificationTxSent",
             "InitialVerificationTxConfirmed", "ReadyToComplete",
             "CompleteVerificationTxSent"}

ItemIds == 1..MaxItems

\* the address of this relayer's key pair and another prover's
OurAddress == "relayer"
Provers == {OurAddress, "other"}

\* item i was submitted in the transactions InitialTx(i) and FinalTx(i)
InitialTx(i) == <<"initial", i>>
FinalTx(i) == <<"final", i>>
UnknownTx == <<"initial", 0>>

\* the hash of Ethereum block n
BlockHash(n) == <<"hash", n>>

\* a block without an event of the LightClientBridge
NoEvent == [Kind |-> "none", Prover |-> "other", TxHash |-> UnknownTx]

\* the events of the LightClientBridge: one event in a block at most
BridgeEventChoices ==
    {NoEvent} \cup
    [Kind : {"InitialVerificationSuccessful"}, Prover : Provers,
     TxHash : {UnknownTx} \cup {InitialTx(i) : i \in ItemIds}] \cup
    [Kind : {"FinalVerificationSuccessful"}, Prover : Provers,
     TxHash : {FinalTx(i) : i \in ItemIds}]

\* the items of the database: an item whose initial verification is
\* confirmed has its completion block
ItemChoices ==
    {it \in [Status : Statuses, CompleteOnBlock : 0..MaxEthBlock] :
        (it.Status = "InitialVerificationTxConfirmed") = (it.CompleteOnBlock > 0)}

\* the item a query of the database returns when no row matches
ZeroItem == [ID |-> 0, Status |-> "CommitmentWitnessed", CompleteOnBlock |-> 0]

Item(i) == [ID |-> i, Status |-> beefyDB[i].Status,
            CompleteOnBlock |-> beefyDB[i].CompleteOnBlock]

GetItemByInitialVerificationTxHash(tx) ==
    IF \E i \in ItemIds : InitialTx(i) = tx
    THEN Item(CHOOSE i \in ItemIds : InitialTx(i) = tx) ELSE ZeroItem

GetItemByFinalVerificationTxHash(tx) ==
    IF \E i \in ItemIds : FinalTx(i) = tx
    THEN Item(CHOOSE i \in ItemIds : FinalTx(i) = tx) ELSE ZeroItem

\* GetItemsByStatus: the items of a status in the order of their ids
RECURSIVE ItemsFrom(_, _)
ItemsFrom(i, status) ==
    IF i > MaxItems THEN <<>>
    ELSE (IF beefyDB[i].Status = status THEN <<Item(i)>> ELSE <<>>)
            \o ItemsFrom(i + 1, status)

GetItemsByStatus(status) == ItemsFrom(1, status)

\* the events a query for the events of one kind at block b returns
QueryEvents(kind, b, queryOk) ==
    IF queryOk /\ ethEvents[b].Kind = kind
    THEN <<[Kind |-> kind, Prover |-> ethEvents[b].Prover,
            TxHash |-> ethEvents[b].TxHash, BlockNumber |-> b]>>
    ELSE <<>>

\* variant: events of every prover are processed
IsOurs_Always(event) == TRUE

\* the event was emitted by a transaction sent from our node
IsOurs(event) == event.Prover = OurAddress

\* the commands processInitialVerificationSuccessfulEvents sends
RECURSIVE processInitialVerificationSuccessfulEvents(_)
processInitialVerificationSuccessfulEvents(evs) ==
    IF evs = <<>> THEN <<>>
    ELSE LET event == Head(evs)
             item == GetItemByInitialVerificationTxHash(event.TxHash)
         IN (IF ~IsOurs(event) THEN <<>>
             ELSE IF item.Status # "InitialVerificationTxSent" THEN <<>>
             ELSE <<[Type |-> "Update", item |-> item,
                     status |-> "InitialVerificationTxConfirmed",
                     complete_on_block |-> event.BlockNumber + blockWaitPeriod]>>)
            \o processInitialVerificationSuccessfulEvents(Tail(evs))

\* the commands processFinalVerificationSuccessfulEvents sends
RECURSIVE processFinalVerificationSuccessfulEvents(_)
processFinalVerificationSuccessfulEvents(evs) ==
    IF evs = <<>> THEN <<>>
    ELSE LET event == Head(evs)
             item == GetItemByFinalVerificationTxHash(event.TxHash)
         IN (IF ~IsOurs(event) THEN <<>>
             ELSE IF item.Status # "CompleteVerificationTxSent" THEN <<>>
             ELSE <<[Type |-> "Delete", item |-> item,
                     status |-> item.Status, complete_on_block |-> 0]>>)
            \o processFinalVerificationSuccessfulEvents(Tail(evs))

\* variant: the last call of the header's case processes the final events
LiveHandlers_WithFinal ==
    <<"processInitialVerificationSuccessfulEvents",
      "forwardWitnessedBeefyCommitment",
      "processFinalVerificationSuccessfulEvents">>

\* the calls of the header's case of pollEventsAndHeaders, in their order
LiveHandlers ==
    <<"processInitialVerificationSuccessfulEvents",
      "forwardWitnessedBeefyCommitment",
      "processInitialVerificationSuccessfulEvents">>

\* variant: every confirmed item is due
IsDue_Always(item, number) == TRUE

\* the test of forwardWitnessedBeefyCommitment on a confirmed item
IsDue(item, number) == item.CompleteOnBlock + descendantsUntilFinal <= number

\* the confirmed items forwardWitnessedBeefyCommitment forwards, as forwarded
RECURSIVE ReadyItems(_, _)
ReadyItems(items, number) ==
    IF items = <<>> THEN <<>>
    ELSE (IF IsDue(Head(items), number)
          THEN <<[ID |-> Head(items).ID, Status |-> "ReadyToComplete",
                  CompleteOnBlock |-> Head(items).CompleteOnBlock,
                  RandomSeed |-> BlockHash(Head(items).CompleteOnBlock)]>>
          ELSE <<>>) \o ReadyItems(Tail(items), number)

\* a witnessed item as it is forwarded
Witnessed(item) == [ID |-> item.ID, Status |-> item.Status,
                    CompleteOnBlock |-> item.CompleteOnBlock,
                    RandomSeed |-> NoHash]

\* -------------------------------------------------------------- bookkeeping
walkLocals == <<header, digestLen, itemIndex, events, basicChannelProofs, blockFetched>>
gatherLocals == <<taskIndex, startBlock, relayI>>
history == <<examined, dropped, doneReason, hashDisagree, checkedMismatch,
             eventsAbsent>>
inputs == <<scenario, beefyBlockNumber, lastParaBlockNumber, ethBasicNonce,
            paraBasicNonce, basicChannelAccountNonces, compared, storedNonce,
            cancelled, chain, run, first, headAbsent, beefyBlockMinusOne>>
replay == <<chain, run, first>>
walkState == <<basicChannelScanAccounts, scanBasicChannelDone, currentBlockNumber,
               tasks>>
scanner == <<pc, inputs, walkState, walkLocals, gatherLocals, result, err, gatherErr,
             history, discarded>>
merkleInputs == <<root, leafNodeHash, merkleProofItems, merkleProofOrderBitField,
                  siblingLeftAt, caller, restOfThePeaks, rightBaggedPeak>>
bagLocals == <<reversedPeaks, bag, currentIndex>>
merkle == <<mpc, merkleInputs, currentPosition, currentHash, merkleRoot, verified,
            bagLocals>>
catchupInputs == <<latestBlock, parachain, delivered>>
searchLocals == <<basicNonceToFind, incentivizedNonceToFind, lostBlockNumber,
                  basicNonceFound, incentivizedNonceFound, digestItems>>
listener == <<lpc, catchupInputs, searchLocals, processed, catchupErr>>
ethInputs == <<ethEvents, beefyDB, blockWaitPeriod, descendantsUntilFinal>>
ethListener == <<epc, ectxDone, ethInputs, liveBlockNumber, handlerIndex, dbMessages,
                 beefyMessages>>
beefyListener == <<bpc, bctxDone, messagesCap, messages, messagePackets,
                   justifications, sent, closes, receiving>>
relayers == <<ethListener, beefyListener>>
outsideBeefyListener == <<scanner, merkle, listener, ethListener>>
outsideScanner == <<merkle, listener, relayers>>
outsideMerkle == <<scanner, listener, relayers>>
outsideListener == <<scanner, merkle, relayers>>
outsideEthListener == <<scanner, merkle, listener, beefyListener>>

\* why account a was marked done, after the marks of one fetcher call
RECURSIVE ReasonAfter(_, _, _)
ReasonAfter(halts, a, old) ==
    IF halts = <<>> THEN old
    ELSE ReasonAfter(Tail(halts), a,
                     IF Head(halts).account = a THEN Head(halts).why ELSE old)

TypeOK ==
    /\ pc \in {"idle", "nonces", "walk", "item", "gather", "lookup", "done"}
    /\ scenario \in Scenarios \cup {"fixed"}
    /\ run \in 1..2
    /\ basicChannelScanAccounts \subseteq Accounts
    /\ scanBasicChannelDone \in BOOLEAN
    /\ currentBlockNumber \in Nat
    /\ err \in {"none", "Rpc", "NotRegistered", "EventsMissing",
                "CommitmentHashMismatch", "Cancelled"}
    /\ cancelled \in BOOLEAN

\* what Scan returned
Returned == [result |-> result, err |-> err, gatherErr |-> gatherErr]

\* the state before Scan is called, in scenario sc on chain c
InitOn(sc, c) ==
    /\ pc = "idle"
    /\ scenario = sc
    /\ chain = c
    /\ run = 1
    /\ first = [result |-> <<>>, err |-> "none", gatherErr |-> "none"]
    /\ beefyBlockNumber = 0
    /\ lastParaBlockNumber = 0
    /\ ethBasicNonce = [a \in Accounts |-> 0]
    /\ paraBasicNonce = [a \in Accounts |-> 0]
    /\ basicChannelAccountNonces = <<>>
    /\ basicChannelScanAccounts = {}
    /\ scanBasicChannelDone = FALSE
    /\ currentBlockNumber = 0
    /\ header = NoHeader
    /\ digestLen = 0
    /\ itemIndex = 0
    /\ events = NoEvents
    /\ basicChannelProofs = <<>>
    /\ tasks = <<>>
    /\ taskIndex = 0
    /\ startBlock = 0
    /\ relayI = 0
    /\ result = <<>>
    /\ err = "none"
    /\ gatherErr = "none"
    /\ examined = {}
    /\ blockFetched = <<>>
    /\ dropped = FALSE
    /\ doneReason = [a \in Accounts |-> "none"]
    /\ hashDisagree = FALSE
    /\ checkedMismatch = FALSE
    /\ eventsAbsent = FALSE
    /\ compared = FALSE
    /\ discarded = FALSE
    /\ cancelled = FALSE
    /\ headAbsent = FALSE
    /\ beefyBlockMinusOne = 0
    /\ storedNonce = [a \in Accounts |-> NotFound]

\* no proof is being verified
MerkleIdle ==
    /\ mpc = "idle"
    /\ root = NoHash
    /\ leafNodeHash = NoHash
    /\ merkleProofItems = <<>>
    /\ merkleProofOrderBitField = 0
    /\ siblingLeftAt = {}
    /\ currentPosition = 0
    /\ currentHash = NoHash
    /\ merkleRoot = NoHash
    /\ verified = FALSE
    /\ caller = "none"
    /\ restOfThePeaks = <<>>
    /\ rightBaggedPeak = NoHash
    /\ reversedPeaks = <<>>
    /\ bag = NoHash
    /\ currentIndex = 0

\* no BeefyEthereumListener is running
EthListenerIdle ==
    /\ epc = "idle"
    /\ ectxDone = FALSE
    /\ ethEvents = [b \in 1..1 |-> NoEvent]
    /\ beefyDB = [i \in 1..1 |-> [Status |-> "CommitmentWitnessed", CompleteOnBlock |-> 0]]
    /\ blockWaitPeriod = 0
    /\ descendantsUntilFinal = 0
    /\ liveBlockNumber = 0
    /\ handlerIndex = 0
    /\ dbMessages = <<>>
    /\ beefyMessages = <<>>

\* no BeefyListener is running
BeefyListenerIdle ==
    /\ bpc = "idle"
    /\ bctxDone = FALSE
    /\ messagesCap = 0
    /\ messages = 0
    /\ messagePackets = 0
    /\ justifications = 0
    /\ sent = 0
    /\ closes = 0
    /\ receiving = FALSE

RelayersIdle == EthListenerIdle /\ BeefyListenerIdle

\* no catch-up is running
ListenerIdle ==
    /\ lpc = "idle"
    /\ latestBlock = 0
    /\ parachain = [b \in 0..0 |-> NoCommitment]
    /\ delivered = [c \in Channels |-> 0]
    /\ basicNonceToFind = 0
    /\ incentivizedNonceToFind = 0
    /\ lostBlockNumber = 0
    /\ basicNonceFound = FALSE
    /\ incentivizedNonceFound = FALSE
    /\ digestItems = <<>>
    /\ processed = <<>>
    /\ catchupErr = "none"

Init ==
    (\E sc \in Scenarios : InitOn(sc, NoChain)) /\ MerkleIdle /\ ListenerIdle
       /\ RelayersIdle

\* a scan that is repeated on a chain that does not change
InitTwice ==
    (\E c \in FixedChains : InitOn("fixed", c)) /\ MerkleIdle /\ ListenerIdle
       /\ RelayersIdle

\* variant: the task slice outlives the call
LocalsGone_TasksKept ==
    /\ basicChannelScanAccounts' = {}
    /\ scanBasicChannelDone' = FALSE
    /\ currentBlockNumber' = 0
    /\ header' = NoHeader
    /\ digestLen' = 0
    /\ itemIndex' = 0
    /\ events' = NoEvents
    /\ basicChannelProofs' = <<>>
    /\ blockFetched' = <<>>
    /\ tasks' = tasks
    /\ taskIndex' = 0
    /\ startBlock' = 0
    /\ relayI' = 0

\* the locals of findTasks, findTasksImpl and gatherProofInputs are gone
\* when Scan returns
LocalsGone ==
    /\ basicChannelScanAccounts' = {}
    /\ scanBasicChannelDone' = FALSE
    /\ currentBlockNumber' = 0
    /\ header' = NoHeader
    /\ digestLen' = 0
    /\ itemIndex' = 0
    /\ events' = NoEvents
    /\ basicChannelProofs' = <<>>
    /\ blockFetched' = <<>>
    /\ tasks' = <<>>
    /\ taskIndex' = 0
    /\ startBlock' = 0
    /\ relayI' = 0

\* variant: a failing scan returns the tasks built so far
ScanFails_KeepsTasks(e) ==
    /\ pc' = "done"
    /\ err' = e
    /\ result' = tasks
    /\ discarded' = (Len(tasks) > 0)
    /\ LocalsGone

\* Scan returns nil, e
ScanFails(e) ==
    /\ pc' = "done"
    /\ err' = e
    /\ result' = <<>>
    /\ discarded' = (Len(tasks) > 0)
    /\ LocalsGone

\* Scan returns ts, nil
ScanReturns(ts) ==
    /\ pc' = "done"
    /\ err' = "none"
    /\ result' = ts
    /\ UNCHANGED discarded
    /\ LocalsGone

\* ------------------------------------------------------------------- Scan
\* Scan up to the call of findTasks: the parachain head at relay block
\* beefyBlockNumber - 1 and its block hash on the parachain
Scan ==
    /\ pc = "idle"
    /\ \E beefy \in BeefyNumbers(scenario) :
       \E relayHashOk \in RelayHashOks(scenario, BeefyBlockMinusOne(beefy)),
          paraHead \in HeadChoices(scenario), paraHashOk \in WalkRpcOks(scenario) :
         /\ beefyBlockNumber' = beefy
         /\ beefyBlockMinusOne' = BeefyBlockMinusOne(beefy)
         /\ headAbsent' = (relayHashOk /\ paraHead = NotRegistered)
         /\ IF ~relayHashOk \/ paraHead = HeadFailed
            THEN ScanFails("Rpc") /\ UNCHANGED lastParaBlockNumber
            ELSE IF ~Registered(paraHead)
            THEN ScanFails("NotRegistered") /\ UNCHANGED lastParaBlockNumber
            ELSE IF ~paraHashOk
            THEN ScanFails("Rpc") /\ UNCHANGED lastParaBlockNumber
            ELSE /\ pc' = "nonces"
                 /\ lastParaBlockNumber' = paraHead.Number
                 /\ UNCHANGED <<err, result, walkState, walkLocals, gatherLocals,
                                discarded>>
    /\ UNCHANGED outsideScanner
    /\ UNCHANGED <<scenario, ethBasicNonce, paraBasicNonce, basicChannelAccountNonces,
                   compared, storedNonce, cancelled, replay, gatherErr, history>>

\* findTasks up to the call of findTasksImpl: the nonce comparison, and the
\* first lines of findTasksImpl (the scan set and the loop flag)
findTasks ==
    /\ pc = "nonces"
    /\ \E eth \in EthNonceMaps(scenario), para \in ParaNonceMaps(scenario),
          latest \in LatestNonceMaps(scenario), rpcOk \in WalkRpcOks(scenario) :
         LET storage == [head |-> para, latest |-> latest]
             paraNonce == [a \in Accounts |->
                             ParaBasicNonce(GetStorage(storage, "head")[a])]
             toFind == NoncesToFind(eth, paraNonce)
         IN
         IF ContextDone(cancelled) \/ ~rpcOk
         THEN /\ ScanFails(IF ContextDone(cancelled) THEN "Cancelled" ELSE "Rpc")
              /\ UNCHANGED <<ethBasicNonce, paraBasicNonce, basicChannelAccountNonces,
                             doneReason, compared, storedNonce>>
         ELSE /\ ethBasicNonce' = eth
              /\ paraBasicNonce' = paraNonce
              /\ basicChannelAccountNonces' = toFind
              /\ compared' = TRUE
              /\ storedNonce' = para
              /\ IF NothingToFind(toFind)
                 THEN /\ ScanReturns(<<>>)
                      /\ UNCHANGED doneReason
                 ELSE /\ pc' = "walk"
                      /\ currentBlockNumber' = lastParaBlockNumber
                      /\ basicChannelScanAccounts' = DOMAIN toFind
                      /\ scanBasicChannelDone' = (DOMAIN toFind = {})
                      /\ doneReason' = [a \in Accounts |->
                                          IF a \in DOMAIN toFind THEN "searching"
                                          ELSE "none"]
                      /\ UNCHANGED <<tasks, err, result, walkLocals, gatherLocals,
                                     discarded>>
    /\ UNCHANGED outsideScanner
    /\ UNCHANGED <<scenario, beefyBlockNumber, lastParaBlockNumber, gatherErr,
                   examined, dropped, hashDisagree, checkedMismatch, eventsAbsent,
                   cancelled, replay, headAbsent, beefyBlockMinusOne>>

\* ---------------------------------------------------------- findTasksImpl
\* one iteration of the loop up to the digest item loop: block hash, header,
\* digest items, and the events of a block that has digest items
findTasksImplHeader ==
    /\ pc = "walk"
    /\ LoopContinues(scanBasicChannelDone, currentBlockNumber)
    /\ \E n \in DigestLens(scenario, currentBlockNumber) \cup HeaderFailures(scenario) :
         IF n = RpcFailed
         THEN /\ ScanFails("Rpc")
              /\ UNCHANGED examined
         ELSE IF n = 0
         THEN /\ currentBlockNumber' = currentBlockNumber - 1
              /\ examined' = examined \cup {currentBlockNumber}
              /\ UNCHANGED <<pc, err, result, walkLocals, basicChannelScanAccounts,
                             scanBasicChannelDone, tasks, gatherLocals, discarded>>
         ELSE IF ContextDone(cancelled)
         THEN /\ ScanFails("Cancelled")
              /\ UNCHANGED examined
         ELSE \E ev \in EventChoices(scenario, currentBlockNumber) :
                IF ev = EventsFailed
                THEN /\ ScanFails("Rpc")
                     /\ UNCHANGED examined
                ELSE /\ pc' = "item"
                     /\ header' = ParaHeader(currentBlockNumber)
                     /\ digestLen' = n
                     /\ itemIndex' = 1
                     /\ events' = ev
                     /\ basicChannelProofs' = <<>>
                     /\ blockFetched' = <<>>
                     /\ UNCHANGED <<err, result, examined, walkState, gatherLocals,
                                    discarded>>
    /\ UNCHANGED outsideScanner
    /\ UNCHANGED <<inputs, gatherErr, dropped, doneReason, hashDisagree,
                   checkedMismatch, eventsAbsent>>

\* one iteration of the loop over digestItems
findTasksImplDigestItem ==
    /\ pc = "item"
    /\ itemIndex <= digestLen
    /\ \E digestItem \in DigestItemChoices(scenario, currentBlockNumber, itemIndex) :
         LET disagree == digestItem.IsCommitment /\ events.Present
                         /\ digestItem.Hash # events.Hash
         IN
         /\ hashDisagree' = (hashDisagree \/ disagree)
         /\ checkedMismatch' = (checkedMismatch \/ (disagree /\ ~scanBasicChannelDone))
         /\ eventsAbsent' = (eventsAbsent \/ (digestItem.IsCommitment /\ ~events.Present))
         /\ IF ~digestItem.IsCommitment \/ scanBasicChannelDone
            THEN /\ itemIndex' = itemIndex + 1
                 /\ UNCHANGED <<pc, err, result, basicChannelProofs, walkState, header,
                                digestLen, events, gatherLocals, blockFetched,
                                doneReason, discarded, basicChannelAccountNonces>>
            ELSE IF EventsMissing(events)
            THEN /\ ScanFails("EventsMissing")
                 /\ UNCHANGED <<doneReason, basicChannelAccountNonces>>
            ELSE IF CommitmentHashMismatch(events.Hash, digestItem.Hash)
            THEN /\ ScanFails("CommitmentHashMismatch")
                 /\ UNCHANGED <<doneReason, basicChannelAccountNonces>>
            ELSE \E roots \in RootChoices(scenario, currentBlockNumber, Len(events.Bundles)) :
                   LET r == scanForBasicChannelProofs(
                              digestItem.Hash, basicChannelAccountNonces,
                              basicChannelScanAccounts, events.Bundles, roots)
                   IN
                   IF r.err
                   THEN /\ ScanFails("Rpc")
                        /\ UNCHANGED <<doneReason, basicChannelAccountNonces>>
                   ELSE /\ basicChannelProofs' =
                             CollectProofs(basicChannelProofs, r.proofs)
                        /\ basicChannelAccountNonces' = r.nonces
                        /\ scanBasicChannelDone' = r.scanDone
                        /\ basicChannelScanAccounts' = r.accounts
                        /\ itemIndex' = itemIndex + 1
                        /\ blockFetched' = blockFetched \o r.proofs
                        /\ doneReason' = [a \in Accounts |->
                                            ReasonAfter(r.halts, a, doneReason[a])]
                        /\ UNCHANGED <<pc, err, result, currentBlockNumber, tasks,
                                       header, digestLen, events, gatherLocals,
                                       discarded>>
    /\ UNCHANGED outsideScanner
    /\ UNCHANGED <<scenario, beefyBlockNumber, lastParaBlockNumber, ethBasicNonce,
                   paraBasicNonce, compared, storedNonce, cancelled, replay,
                   headAbsent, beefyBlockMinusOne, gatherErr, examined, dropped>>

\* the end of an iteration: the task of the block, currentBlockNumber--
findTasksImplTask ==
    /\ pc = "item"
    /\ itemIndex > digestLen
    /\ tasks' = IF Len(basicChannelProofs) > 0
                THEN Append(tasks, [Header |-> header,
                                    BasicChannelProofs |-> basicChannelProofs,
                                    ProofInput |-> <<>>])
                ELSE tasks
    /\ currentBlockNumber' = currentBlockNumber - 1
    /\ examined' = examined \cup {currentBlockNumber}
    /\ header' = NoHeader
    /\ digestLen' = 0
    /\ itemIndex' = 0
    /\ events' = NoEvents
    /\ basicChannelProofs' = <<>>
    /\ blockFetched' = <<>>
    /\ dropped' = (dropped \/ ~(Range(blockFetched) \subseteq Range(basicChannelProofs)))
    /\ pc' = "walk"
    /\ UNCHANGED outsideScanner
    /\ UNCHANGED <<inputs, basicChannelScanAccounts, scanBasicChannelDone, err, result,
                   gatherLocals, gatherErr, doneReason, hashDisagree, checkedMismatch,
                   eventsAbsent, discarded>>

\* the loop ends: the tasks are sorted and handed to gatherProofInputs
findTasksImplReturn ==
    /\ pc = "walk"
    /\ ~LoopContinues(scanBasicChannelDone, currentBlockNumber)
    /\ tasks' = SortTasks(tasks)
    /\ taskIndex' = 1
    /\ pc' = "gather"
    /\ basicChannelScanAccounts' = {}
    /\ scanBasicChannelDone' = FALSE
    /\ currentBlockNumber' = 0
    /\ UNCHANGED outsideScanner
    /\ UNCHANGED <<inputs, walkLocals, startBlock, relayI, err, result, gatherErr,
                   history, discarded>>

\* ------------------------------------------------------ gatherProofInputs
\* gatherProofInputs returns e, and findTasks and Scan return
GatherReturns(e) ==
    /\ gatherErr' = e
    /\ UNCHANGED discarded
    /\ pc' = "done"
    /\ err' = findTasksReturn(tasks, e).err
    /\ result' = findTasksReturn(tasks, e).tasks
    /\ LocalsGone

\* the next task of the loop, and findInclusionBlockNumber up to its loop:
\* the block hash and the PersistedValidationData of the task's block
gatherProofInputs ==
    /\ pc = "gather"
    /\ IF taskIndex > Len(tasks)
       THEN GatherReturns("none")
       ELSE \E hashOk \in GatherRpcOks(scenario),
               validationData \in ValidationDataChoices(scenario) :
              IF ~hashOk \/ validationData = RpcFailed
              THEN GatherReturns("Rpc")
              ELSE IF validationData = NotFound
              THEN GatherReturns("PersistedValidationData not found")
              ELSE /\ startBlock' = validationData + 1
                   /\ relayI' = validationData + 1
                   /\ pc' = "lookup"
                   /\ UNCHANGED <<err, result, gatherErr, walkState, walkLocals,
                                  taskIndex, discarded>>
    /\ UNCHANGED outsideScanner
    /\ UNCHANGED <<inputs, history>>

\* one iteration of the loop of findInclusionBlockNumber and, on a match,
\* the rest of the iteration of gatherProofInputs
findInclusionBlockNumber ==
    /\ pc = "lookup"
    /\ LET paraBlockNumber == tasks[taskIndex].Header.Number
       IN
       IF ~Less32(relayI, startBlock + FinalizationTimeout)
       THEN GatherReturns("scan terminated")
       ELSE \E paraHead \in RelayHeadChoices(scenario, paraBlockNumber, relayI),
               rpcOk \in GatherRpcOks(scenario) :
              IF paraHead = HeadFailed
              THEN GatherReturns("Rpc")
              ELSE IF paraHead = NotRegistered
              THEN GatherReturns("not registered")
              ELSE IF HeadMatches(paraBlockNumber, paraHead)
              THEN IF ~rpcOk
                   THEN GatherReturns("Rpc")
                   ELSE /\ tasks' = [tasks EXCEPT ![taskIndex].ProofInput =
                                       <<[ParaID |-> ParaID,
                                          RelayBlockNumber |-> relayI,
                                          ParaHeads |-> FetchParachainHeads(paraHead)]>>]
                        /\ taskIndex' = taskIndex + 1
                        /\ pc' = "gather"
                        /\ startBlock' = 0
                        /\ relayI' = 0
                        /\ UNCHANGED <<err, result, gatherErr, walkLocals,
                                       basicChannelScanAccounts, scanBasicChannelDone,
                                       currentBlockNumber, discarded>>
              ELSE /\ relayI' = relayI + 1
                   /\ UNCHANGED <<pc, err, result, gatherErr, walkState, walkLocals,
                                  taskIndex, startBlock, discarded>>
    /\ UNCHANGED outsideScanner
    /\ UNCHANGED <<inputs, history>>

\* the caller cancels the context of a scan in progress
Cancel ==
    /\ pc \notin {"idle", "done"}
    /\ scenario \in CancelScenarios
    /\ ~cancelled
    /\ cancelled' = TRUE
    /\ UNCHANGED outsideScanner
    /\ UNCHANGED <<pc, scenario, beefyBlockNumber, lastParaBlockNumber, ethBasicNonce,
                   paraBasicNonce, basicChannelAccountNonces, compared, storedNonce,
                   walkState, walkLocals, gatherLocals, result, err, gatherErr,
                   history, discarded, replay, headAbsent, beefyBlockMinusOne>>

\* Scan has returned and is called again with the same argument; the chains
\* are as they were, and the Scanner is the same object
Rescan ==
    /\ pc = "done"
    /\ run = 1
    /\ run' = 2
    /\ first' = Returned
    /\ pc' = "idle"
    /\ result' = <<>>
    /\ err' = "none"
    /\ gatherErr' = "none"
    /\ beefyBlockNumber' = 0
    /\ lastParaBlockNumber' = 0
    /\ ethBasicNonce' = [a \in Accounts |-> 0]
    /\ paraBasicNonce' = [a \in Accounts |-> 0]
    /\ basicChannelAccountNonces' = <<>>
    /\ compared' = FALSE
    /\ storedNonce' = [a \in Accounts |-> NotFound]
    /\ examined' = {}
    /\ dropped' = FALSE
    /\ doneReason' = [a \in Accounts |-> "none"]
    /\ hashDisagree' = FALSE
    /\ checkedMismatch' = FALSE
    /\ eventsAbsent' = FALSE
    /\ discarded' = FALSE
    /\ headAbsent' = FALSE
    /\ beefyBlockMinusOne' = 0
    /\ UNCHANGED outsideScanner
    /\ UNCHANGED <<scenario, chain, cancelled, walkState, walkLocals, gatherLocals>>

Next ==
    \/ Scan
    \/ findTasks
    \/ findTasksImplHeader
    \/ findTasksImplDigestItem
    \/ findTasksImplTask
    \/ findTasksImplReturn
    \/ gatherProofInputs
    \/ findInclusionBlockNumber
    \/ Cancel

Spec == Init /\ [][Next]_vars

\* two executions of Scan, one after the other, on a fixed chain
NextTwice ==
    \/ Scan
    \/ findTasks
    \/ findTasksImplHeader
    \/ findTasksImplDigestItem
    \/ findTasksImplTask
    \/ findTasksImplReturn
    \/ gatherProofInputs
    \/ findInclusionBlockNumber
    \/ Rescan

SpecTwice == InitTwice /\ [][NextTwice]_vars

\* Scan runs on its goroutine until it returns: a step that can be taken is
\* taken
SpecFair == Spec /\ WF_vars(Next)

\* ------------------------------------------------ SimplifiedMMRVerification
\* a call of verifyMerkleRoot(root, leafNodeHash, merkleProofItems,
\* merkleProofOrderBitField); the prover chose the levels of siblingLeftAt
InitMerkle ==
    /\ InitOn("walk", NoChain)
    /\ ListenerIdle
    /\ RelayersIdle
    /\ caller \in {"verifyMerkleRoot", "verifyInclusionProof"}
    /\ mpc = IF caller = "verifyMerkleRoot" THEN "called" ELSE "verifyInclusionProof"
    /\ root \in IF caller = "verifyMerkleRoot" THEN RootChoices32
               ELSE RootChoicesInclusion
    /\ leafNodeHash \in LeafHashes
    /\ merkleProofItems \in SeqsUpTo(SiblingHashes, MaxProofItems)
                              \cup (IF caller = "verifyMerkleRoot" THEN {}
                                    ELSE {LongProof})
    /\ siblingLeftAt \in SUBSET (0..MaxBitIndex)
    /\ merkleProofOrderBitField = BitField(siblingLeftAt)
    /\ restOfThePeaks \in IF caller = "verifyMerkleRoot" THEN {<<>>}
                         ELSE SeqsUpTo(PeakHashes, MaxPeaks)
    /\ rightBaggedPeak \in IF caller = "verifyMerkleRoot" THEN {NoHash}
                          ELSE RightPeaks
    /\ currentPosition = 0
    /\ currentHash = NoHash
    /\ merkleRoot = NoHash
    /\ verified = FALSE
    /\ reversedPeaks = <<>>
    /\ bag = NoHash
    /\ currentIndex = 0

\* verifyInclusionProof up to its call of calculateMerkleRoot: the require
\* on the number of proof items
verifyInclusionProof ==
    /\ mpc = "verifyInclusionProof"
    /\ mpc' = IF Len(merkleProofItems) < ProofItemsLimit THEN "called" ELSE "reverted"
    /\ UNCHANGED <<merkleInputs, currentPosition, currentHash, merkleRoot, verified,
                   bagLocals, outsideMerkle>>

\* calculateMerkleRoot up to its loop: currentHash = leafNodeHash
calculateMerkleRoot ==
    /\ mpc = "called"
    /\ mpc' = "loop"
    /\ currentHash' = leafNodeHash
    /\ currentPosition' = 0
    /\ UNCHANGED <<merkleInputs, merkleRoot, verified, bagLocals, outsideMerkle>>

\* one iteration of the loop of calculateMerkleRoot
calculateMerkleRootLoop ==
    /\ mpc = "loop"
    /\ currentPosition < Len(merkleProofItems)
    /\ LET isSiblingLeft == bit(merkleProofOrderBitField, currentPosition)
           sibling == merkleProofItems[currentPosition + 1]
       IN currentHash' = IF isSiblingLeft THEN keccak256(sibling, currentHash)
                         ELSE keccak256(currentHash, sibling)
    /\ currentPosition' = currentPosition + 1
    /\ UNCHANGED <<mpc, merkleInputs, merkleRoot, verified, bagLocals, outsideMerkle>>

\* calculateMerkleRoot returns currentHash and verifyMerkleRoot compares it
\* with root
verifyMerkleRoot ==
    /\ mpc = "loop"
    /\ caller = "verifyMerkleRoot"
    /\ ~(currentPosition < Len(merkleProofItems))
    /\ mpc' = "returned"
    /\ merkleRoot' = currentHash
    /\ verified' = (currentHash = root)
    /\ UNCHANGED <<merkleInputs, currentPosition, currentHash, bagLocals, outsideMerkle>>

\* calculateMerkleRoot returns the peak of the leaf to verifyInclusionProof,
\* which fills reversedPeaks and calls bagPeaks; bagPeaks up to its loop
verifyInclusionProofPeaks ==
    /\ mpc = "loop"
    /\ caller = "verifyInclusionProof"
    /\ ~(currentPosition < Len(merkleProofItems))
    /\ reversedPeaks' = ReversedPeaks(rightBaggedPeak, currentHash, restOfThePeaks)
    /\ bag' = reversedPeaks'[1]
    /\ currentIndex' = 1
    /\ mpc' = "bagPeaks"
    /\ UNCHANGED <<merkleInputs, currentPosition, currentHash, merkleRoot, verified,
                   outsideMerkle>>

\* one iteration of the loop of bagPeaks
bagPeaks ==
    /\ mpc = "bagPeaks"
    /\ currentIndex < Len(reversedPeaks)
    /\ bag' = keccak256(bag, reversedPeaks[currentIndex + 1])
    /\ currentIndex' = currentIndex + 1
    /\ UNCHANGED <<mpc, merkleInputs, currentPosition, currentHash, merkleRoot,
                   verified, reversedPeaks, outsideMerkle>>

\* bagPeaks returns bag and verifyInclusionProof compares it with root
verifyInclusionProofReturn ==
    /\ mpc = "bagPeaks"
    /\ ~(currentIndex < Len(reversedPeaks))
    /\ mpc' = "inclusionReturned"
    /\ verified' = (bag = root)
    /\ UNCHANGED <<merkleInputs, currentPosition, currentHash, merkleRoot,
                   bagLocals, outsideMerkle>>

NextMerkle ==
    \/ verifyInclusionProof
    \/ calculateMerkleRoot
    \/ calculateMerkleRootLoop
    \/ verifyMerkleRoot
    \/ verifyInclusionProofPeaks
    \/ bagPeaks
    \/ verifyInclusionProofReturn

SpecMerkle == InitMerkle /\ [][NextMerkle]_vars

\* ------------------------------------------------- Listener (catch-up)
\* the state before catchupMissedCommitments(latestBlock) is called
InitCatchup ==
    /\ InitOn("walk", NoChain)
    /\ MerkleIdle
    /\ RelayersIdle
    /\ lpc = "idle"
    /\ latestBlock \in 0..MaxLatestBlock
    /\ parachain \in Parachains
    /\ delivered \in DeliveredChoices(parachain)
    /\ basicNonceToFind = 0
    /\ incentivizedNonceToFind = 0
    /\ lostBlockNumber = 0
    /\ basicNonceFound = FALSE
    /\ incentivizedNonceFound = FALSE
    /\ digestItems = <<>>
    /\ processed = <<>>
    /\ catchupErr = "none"

\* catchupMissedCommitments up to the loop of searchForLostCommitments
catchupMissedCommitments ==
    /\ lpc = "idle"
    /\ \E rpcOk \in BOOLEAN :
         LET para == ParaNonces(NonceStorageLatest(parachain, "basic"),
                                NonceStorageLatest(parachain, "incentivized"))
         IN
         IF ~rpcOk
         THEN /\ lpc' = "done"
              /\ catchupErr' = "Rpc"
              /\ UNCHANGED searchLocals
         ELSE IF NothingMissed(delivered, para)
         THEN /\ lpc' = "done"
              /\ UNCHANGED <<catchupErr, searchLocals>>
         ELSE /\ lpc' = "search"
              /\ basicNonceToFind' = delivered["basic"]
              /\ incentivizedNonceToFind' = delivered["incentivized"]
              /\ lostBlockNumber' = latestBlock + 1
              /\ basicNonceFound' = FALSE
              /\ incentivizedNonceFound' = FALSE
              /\ digestItems' = <<>>
              /\ UNCHANGED catchupErr
    /\ UNCHANGED <<catchupInputs, processed, outsideListener>>

\* one iteration of the loop of searchForLostCommitments
searchForLostCommitments ==
    /\ lpc = "search"
    /\ SearchContinues
    /\ \E rpcOk \in BOOLEAN :
         LET digestItem == DigestItemOf(parachain, lostBlockNumber - 1)
             checksBasic == /\ digestItem.IsCommitment
                            /\ digestItem.ChannelID = "basic"
                            /\ ~basicNonceFound
             checksIncentivized == /\ digestItem.IsCommitment
                                   /\ digestItem.ChannelID = "incentivized"
                                   /\ ~incentivizedNonceFound
             basicRelayed ==
                 checkIfDigestItemContainsNonce(digestItem, basicNonceToFind)
             incentivizedRelayed ==
                 checkIfDigestItemContainsNonce(digestItem, incentivizedNonceToFind)
             afterBasic == IF checksBasic /\ ~basicRelayed
                           THEN Append(digestItems, digestItem) ELSE digestItems
         IN
         /\ lostBlockNumber' = lostBlockNumber - 1
         /\ IF ~rpcOk
            THEN /\ lpc' = "done"
                 /\ catchupErr' = "Rpc"
                 /\ UNCHANGED <<basicNonceFound, incentivizedNonceFound, digestItems>>
            ELSE /\ basicNonceFound' = (basicNonceFound \/ (checksBasic /\ basicRelayed))
                 /\ incentivizedNonceFound' =
                        (incentivizedNonceFound \/ (checksIncentivized /\ incentivizedRelayed))
                 /\ digestItems' = IF checksIncentivized /\ ~incentivizedRelayed
                                   THEN Append(afterBasic, digestItem) ELSE afterBasic
                 /\ UNCHANGED <<lpc, catchupErr>>
    /\ UNCHANGED <<catchupInputs, basicNonceToFind, incentivizedNonceToFind, processed,
                   outsideListener>>

\* the loop has ended: the items are reversed
searchForLostCommitmentsReverse ==
    /\ lpc = "search"
    /\ ~SearchContinues
    /\ lpc' = "process"
    /\ digestItems' = Reverse(digestItems)
    /\ UNCHANGED <<catchupInputs, basicNonceToFind, incentivizedNonceToFind,
                   lostBlockNumber, basicNonceFound, incentivizedNonceFound, processed,
                   catchupErr, outsideListener>>

\* the next item is passed to processDigestItem
processDigestItem ==
    /\ lpc = "process"
    /\ Len(processed) < Len(digestItems)
    /\ processed' = Append(processed, digestItems[Len(processed) + 1])
    /\ \E ok \in BOOLEAN :
         IF ok THEN UNCHANGED <<lpc, catchupErr>>
         ELSE lpc' = "done" /\ catchupErr' = "Process"
    /\ UNCHANGED <<catchupInputs, searchLocals, outsideListener>>

\* every item has been processed: searchForLostCommitments and
\* catchupMissedCommitments return nil
catchupMissedCommitmentsReturn ==
    /\ lpc = "process"
    /\ Len(processed) = Len(digestItems)
    /\ lpc' = "done"
    /\ UNCHANGED <<catchupInputs, searchLocals, processed, catchupErr, outsideListener>>

NextCatchup ==
    \/ catchupMissedCommitments
    \/ searchForLostCommitments
    \/ searchForLostCommitmentsReverse
    \/ processDigestItem
    \/ catchupMissedCommitmentsReturn

SpecCatchup == InitCatchup /\ [][NextCatchup]_vars

\* the catch-up runs on the Listener's goroutine until it returns: a step
\* that can be taken is taken
SpecCatchupFair == SpecCatchup /\ WF_vars(NextCatchup)

\* ----------------------------------------------------- BeefyEthereumListener
\* the listener in live mode: Start has read BLOCK_WAIT_PERIOD and
\* pollEventsAndHeaders waits in its select
InitLive ==
    /\ InitOn("walk", NoChain)
    /\ MerkleIdle
    /\ ListenerIdle
    /\ BeefyListenerIdle
    /\ epc = "select"
    /\ ectxDone = FALSE
    /\ ethEvents \in [1..MaxEthBlock -> BridgeEventChoices]
    /\ beefyDB \in [ItemIds -> ItemChoices]
    /\ blockWaitPeriod \in 0..1
    /\ descendantsUntilFinal \in 0..1
    /\ liveBlockNumber = 0
    /\ handlerIndex = 0
    /\ dbMessages = <<>>
    /\ beefyMessages = <<>>

\* the case <-ctx.Done() of the select
pollEventsAndHeadersDone ==
    /\ epc = "select"
    /\ ectxDone
    /\ epc' = "returned"
    /\ UNCHANGED <<ectxDone, ethInputs, liveBlockNumber, handlerIndex, dbMessages,
                   beefyMessages, outsideEthListener>>

\* the case gethheader := <-headers of the select: the next header
pollEventsAndHeaders ==
    /\ epc = "select"
    /\ liveBlockNumber < MaxEthBlock
    /\ liveBlockNumber' = liveBlockNumber + 1
    /\ handlerIndex' = 1
    /\ epc' = "header"
    /\ UNCHANGED <<ectxDone, ethInputs, dbMessages, beefyMessages, outsideEthListener>>

\* a call of the header's case that processes the events of the block
processEvents ==
    /\ epc = "header"
    /\ handlerIndex <= Len(LiveHandlers)
    /\ LiveHandlers[handlerIndex] # "forwardWitnessedBeefyCommitment"
    /\ \E queryOk \in BOOLEAN :
         dbMessages' = dbMessages \o
            (IF LiveHandlers[handlerIndex] = "processInitialVerificationSuccessfulEvents"
             THEN processInitialVerificationSuccessfulEvents(
                      QueryEvents("InitialVerificationSuccessful", liveBlockNumber, queryOk))
             ELSE processFinalVerificationSuccessfulEvents(
                      QueryEvents("FinalVerificationSuccessful", liveBlockNumber, queryOk)))
    /\ handlerIndex' = handlerIndex + 1
    /\ UNCHANGED <<epc, ectxDone, ethInputs, liveBlockNumber, beefyMessages, outsideEthListener>>

\* forwardWitnessedBeefyCommitment: the witnessed items, then the confirmed
\* items that are due; block.Hash() of a block that could not be fetched is
\* a nil dereference
forwardWitnessedBeefyCommitment ==
    /\ epc = "header"
    /\ handlerIndex <= Len(LiveHandlers)
    /\ LiveHandlers[handlerIndex] = "forwardWitnessedBeefyCommitment"
    /\ LET witnessedItems == GetItemsByStatus("CommitmentWitnessed")
           ready == ReadyItems(GetItemsByStatus("InitialVerificationTxConfirmed"),
                               liveBlockNumber)
       IN \E fetched \in 0..Len(ready) :
             /\ beefyMessages' = beefyMessages
                    \o [k \in 1..Len(witnessedItems) |-> Witnessed(witnessedItems[k])]
                    \o SubSeq(ready, 1, fetched)
             /\ IF fetched < Len(ready)
                THEN epc' = "panicked" /\ UNCHANGED handlerIndex
                ELSE handlerIndex' = handlerIndex + 1 /\ UNCHANGED epc
    /\ UNCHANGED <<ectxDone, ethInputs, liveBlockNumber, dbMessages, outsideEthListener>>

\* the header's case is over: back to the select
pollEventsAndHeadersLoop ==
    /\ epc = "header"
    /\ handlerIndex > Len(LiveHandlers)
    /\ epc' = "select"
    /\ handlerIndex' = 0
    /\ UNCHANGED <<ectxDone, ethInputs, liveBlockNumber, dbMessages, beefyMessages,
                   outsideEthListener>>

\* the context of the listener is cancelled
CancelLive ==
    /\ epc \in {"select", "header"}
    /\ ~ectxDone
    /\ ectxDone' = TRUE
    /\ UNCHANGED <<epc, ethInputs, liveBlockNumber, handlerIndex, dbMessages,
                   beefyMessages, outsideEthListener>>

NextLive ==
    \/ pollEventsAndHeadersDone
    \/ pollEventsAndHeaders
    \/ processEvents
    \/ forwardWitnessedBeefyCommitment
    \/ pollEventsAndHeadersLoop
    \/ CancelLive

SpecLive == InitLive /\ [][NextLive]_vars

\* the listener's goroutine runs and headers keep arriving
SpecLiveFair == SpecLive /\ WF_vars(NextLive)

\* ------------------------------------------------------------- BeefyListener
\* subBeefyJustifications has subscribed and waits in its select; the
\* consumer of li.messages receives
InitBeefy ==
    /\ InitOn("walk", NoChain)
    /\ MerkleIdle
    /\ ListenerIdle
    /\ EthListenerIdle
    /\ bpc = "select"
    /\ bctxDone = FALSE
    /\ messagesCap \in 0..MaxCap
    /\ messages = 0
    /\ messagePackets = 0
    /\ justifications = 0
    /\ sent = 0
    /\ closes = 0
    /\ receiving = TRUE

\* the case <-ctx.Done() of the select: onDone closes li.messages and
\* returns ctx.Err()
onDone ==
    /\ bpc = "select"
    /\ bctxDone
    /\ closes' = closes + 1
    /\ bpc' = "returned"
    /\ UNCHANGED <<bctxDone, messagesCap, messages, messagePackets, justifications,
                   sent, receiving, outsideBeefyListener>>

\* the case msg := <-ch of the select up to the loop over messagePackets: a
\* justification without signatures or without commitments is skipped
subBeefyJustifications ==
    /\ bpc = "select"
    /\ justifications < MaxJustifications
    /\ justifications' = justifications + 1
    /\ \E packets \in 0..MaxPackets :
         /\ messagePackets' = packets
         /\ bpc' = IF packets = 0 THEN "select" ELSE "emit"
    /\ UNCHANGED <<bctxDone, messagesCap, messages, sent, closes, receiving,
                   outsideBeefyListener>>

\* can a send on li.messages proceed: the channel has room, or it has no
\* buffer and the consumer is at its receive
CanSend == messages < messagesCap \/ (messagesCap = 0 /\ receiving)

\* li.messages <- messagePacket
emitMessagePacket ==
    /\ bpc = "emit"
    /\ CanSend
    /\ messages' = IF messagesCap = 0 THEN messages ELSE messages + 1
    /\ sent' = sent + 1
    /\ messagePackets' = messagePackets - 1
    /\ bpc' = IF messagePackets = 1 THEN "select" ELSE "emit"
    /\ UNCHANGED <<bctxDone, messagesCap, justifications, closes, receiving,
                   outsideBeefyListener>>

\* the consumer takes a package out of the buffer of li.messages
Receive ==
    /\ bpc \in {"select", "emit"}
    /\ receiving
    /\ messages > 0
    /\ messages' = messages - 1
    /\ UNCHANGED <<bpc, bctxDone, messagesCap, messagePackets, justifications, sent,
                   closes, receiving, outsideBeefyListener>>

\* the context of the relayer is cancelled
CancelBeefy ==
    /\ bpc \in {"select", "emit"}
    /\ ~bctxDone
    /\ bctxDone' = TRUE
    /\ UNCHANGED <<bpc, messagesCap, messages, messagePackets, justifications, sent,
                   closes, receiving, outsideBeefyListener>>

\* the consumer sees the cancelled context and returns
ConsumerStops ==
    /\ bpc \in {"select", "emit"}
    /\ bctxDone
    /\ receiving
    /\ receiving' = FALSE
    /\ UNCHANGED <<bpc, bctxDone, messagesCap, messages, messagePackets,
                   justifications, sent, closes, outsideBeefyListener>>

NextBeefy ==
    \/ onDone
    \/ subBeefyJustifications
    \/ emitMessagePacket
    \/ Receive
    \/ CancelBeefy
    \/ ConsumerStops

SpecBeefy == InitBeefy /\ [][NextBeefy]_vars

\* the goroutines run: a step that stays possible is taken
SpecBeefyFair == SpecBeefy /\ WF_vars(NextBeefy)

\* ================================================================ properties
\* Scan has returned without an error
ScanSucceeded == pc = "done" /\ err = "none"

\* every bundle proof of a task list
ProofsOf(ts) ==
    UNION {Range(ts[i].BasicChannelProofs) : i \in 1..Len(ts)}

\* the tasks built so far and the tasks returned
AllTasks == tasks \o result

\* the watched accounts whose parachain nonce exceeds the Ethereum nonce
Mismatched == {a \in Accounts : paraBasicNonce[a] > ethBasicNonce[a]}

\* a returned task holds the proof of account a's first missing nonce
HasTargetProof(a) ==
    \E p \in ProofsOf(result) :
       p.Bundle.Account = a /\ p.Bundle.Nonce = ethBasicNonce[a] + 1

\* the walk inspected every block from the starting head down to block 1
ExaminedAll == examined = 1..lastParaBlockNumber

TaskNumbers(ts) == [i \in 1..Len(ts) |-> ts[i].Header.Number]

TaskBundles(t) ==
    [k \in 1..Len(t.BasicChannelProofs) |-> t.BasicChannelProofs[k].Bundle]

\* the head of the configured parachain among the heads of a proof input
ConfiguredHead(proofInput) == proofInput.ParaHeads[Len(proofInput.ParaHeads)]

\* C1: the block numbers of the tasks Scan returns are strictly ascending.
C1_Ordering ==
    pc = "done" =>
      \A i, j \in 1..Len(result) :
         i < j => result[i].Header.Number < result[j].Header.Number

C1_Witness == ScanSucceeded /\ Len(result) >= 2

\* C2: when the inclusion search fails for a task (validation data absent,
\* parachain not registered in the window, no head of the window with the
\* task's number), Scan returns an error and no task list.
C2_InclusionFailureFailsScan ==
    (pc = "done" /\ gatherErr # "none") => (err # "none" /\ result = <<>>)

\* C3: every task of a scan that reports no error has its ProofInput, with
\* the configured para id.
C3_ProofInputAttached ==
    ScanSucceeded =>
      \A i \in 1..Len(result) :
         /\ Len(result[i].ProofInput) = 1
         /\ result[i].ProofInput[1].ParaID = ParaID

\* C4: for every account whose parachain nonce exceeds its Ethereum nonce, a
\* successful scan returns the proof of its first missing nonce or has
\* examined every block from the starting head down to block 1.
C4_Original ==
    ScanSucceeded =>
      \A a \in Mismatched : HasTargetProof(a) \/ ExaminedAll

\* C4 as amended: ... or the walk marked the account done without a find (a
\* bundle below its target, a proof root that did not verify), or found the
\* target in a block whose task lacks a proof that was fetched for it.
C4_NonceCoverage ==
    ScanSucceeded =>
      \A a \in Mismatched :
         \/ HasTargetProof(a)
         \/ ExaminedAll
         \/ doneReason[a] \in {"below", "mismatch"}
         \/ (doneReason[a] = "found" /\ dropped)

C4_Witness ==
    /\ ScanSucceeded
    /\ \E a \in Mismatched :
          doneReason[a] = "below" /\ ~HasTargetProof(a) /\ ~ExaminedAll
    /\ \E a \in Mismatched : HasTargetProof(a)

\* C5: the proofs of a block hold every proof the fetcher returned for a
\* commitment digest item of the block; a proof collected for an earlier item
\* is not dropped when a later item of the block is processed.
C5_AllItemProofsKept ==
    pc = "item" => Range(blockFetched) \subseteq Range(basicChannelProofs)

\* C6: in scenario S3 Scan returns three tasks, for blocks 92, 95, 98, with
\* three proofs of account A, the walk ending at block 92.
C6_Original ==
    (scenario = "S3" /\ ScanSucceeded) =>
      /\ TaskNumbers(result) = <<92, 95, 98>>
      /\ Cardinality({p \in ProofsOf(result) : p.Bundle.Account = "A"}) = 3
      /\ 92 \in examined

\* C6 as amended: in scenario S3 Scan returns one task, for block 98, with
\* the proofs of {A,6} and {B,4}; both accounts are done after block 98 and
\* the walk ends there.
C6_ScenarioS3 ==
    (scenario = "S3" /\ ScanSucceeded) =>
      /\ TaskNumbers(result) = <<98>>
      /\ TaskBundles(result[1]) = <<[Account |-> "A", Nonce |-> 6],
                                    [Account |-> "B", Nonce |-> 4]>>
      /\ doneReason = [a \in Accounts |-> "found"]
      /\ examined = 98..lastParaBlockNumber

C6_Witness == scenario = "S3" /\ ScanSucceeded /\ Len(result) = 1

\* C7: every collected bundle belongs to an account of the mismatch map and
\* its nonce is at least the account's first missing nonce, the Ethereum
\* nonce read at the start plus one.
C7_NonceAtLeastTarget ==
    \A p \in ProofsOf(AllTasks) \cup Range(basicChannelProofs) :
       /\ p.Bundle.Account \in Mismatched
       /\ p.Bundle.Account \in DOMAIN basicChannelAccountNonces
       /\ p.Bundle.Nonce >= ethBasicNonce[p.Bundle.Account] + 1

C7_Witness ==
    /\ ScanSucceeded
    /\ Mismatched # Accounts
    /\ \E p \in ProofsOf(result) : p.Bundle.Nonce > ethBasicNonce[p.Bundle.Account] + 1

\* C8: the root of every collected proof is the commitment hash of the digest
\* item the proof was requested for.
C8_ProofSoundness ==
    \A p \in ProofsOf(AllTasks) \cup Range(basicChannelProofs) :
       p.Proof.Root = p.Request.Commitment

C8_Witness ==
    /\ ScanSucceeded
    /\ ProofsOf(result) # {}
    /\ \E a \in Accounts : doneReason[a] = "mismatch"

C10_Original ==
    (pc = "done" /\ hashDisagree) =>
      (err = "CommitmentHashMismatch" /\ result = <<>>)

\* C10 as amended: ... a commitment digest item that is reached while an
\* account is still searched for ...
C10_HashMismatchFails ==
    checkedMismatch =>
      (pc = "done" /\ err = "CommitmentHashMismatch" /\ result = <<>>)

C10_Witness == checkedMismatch /\ pc = "done"

\* C11: when a visited block has a commitment digest item and QueryEvent
\* returned no Committed event for it, the scan fails with the events-missing
\* error and returns no tasks; the walk does not go on to the next block.
C11_EventsMissingFails ==
    eventsAbsent =>
      (pc = "done" /\ err = "EventsMissing" /\ result = <<>>)

C11_Witness == eventsAbsent /\ pc = "done" /\ examined # {}

\* the nonce of account a in parachain storage at the starting head, an
\* absent entry counting as 0
NonceAtHead(a) == IF storedNonce[a] = NotFound THEN 0 ELSE storedNonce[a]

\* C12: when the nonce comparison finds no watched account whose parachain
\* nonce at the starting head exceeds its Ethereum nonce, Scan returns an empty
\* task list and no error straight after the comparison: no block is walked
\* and no inclusion lookup is made.
C12_NoSpuriousTasks ==
    (compared /\ \A a \in Accounts : NonceAtHead(a) <= ethBasicNonce[a]) =>
      /\ pc = "done"
      /\ err = "none"
      /\ result = <<>>
      /\ examined = {}
      /\ gatherErr = "none"

C12_Witness ==
    /\ compared
    /\ pc = "done"
    /\ lastParaBlockNumber > 0
    /\ \A a \in Accounts : NonceAtHead(a) <= ethBasicNonce[a]
    /\ \E a \in Accounts : NonceAtHead(a) > 0

\* C19: the map of nonces to find holds exactly the watched accounts whose
\* parachain nonce, read from storage at the starting head (an absent entry
\* counting as 0), exceeds the Ethereum nonce, each with the Ethereum nonce
\* plus one.
C19_MismatchMap ==
    compared =>
      basicChannelAccountNonces =
        [a \in {x \in Accounts : NonceAtHead(x) > ethBasicNonce[x]} |->
           ethBasicNonce[a] + 1]

C19_Witness ==
    /\ compared
    /\ \E a, b \in Accounts :
          /\ a \in DOMAIN basicChannelAccountNonces
          /\ basicChannelAccountNonces[a] = 2
          /\ b \notin DOMAIN basicChannelAccountNonces
          /\ storedNonce[b] = NotFound

\* ---- one call of scanForBasicChannelProofs, stated over its arguments ----
\* the walk is at a digest item for which the fetcher is called when the item
\* is a commitment with the hash of the block's event
CallPending ==
    pc = "item" /\ itemIndex <= digestLen /\ ~scanBasicChannelDone /\ events.Present

\* the answers the parachain may give to the proof requests of the call
CallRoots == RootChoices(scenario, currentBlockNumber, Len(events.Bundles))

CallResult(roots) ==
    scanForBasicChannelProofs(events.Hash, basicChannelAccountNonces,
                              basicChannelScanAccounts, events.Bundles, roots)

BundleAccount(k) == events.Bundles[k].Account

BundleNonce(k) == events.Bundles[k].Nonce

\* the first missing nonce of the account of bundle k
BundleTarget(k) == basicChannelAccountNonces[BundleAccount(k)]

\* the proof of bundle k verifies against the commitment hash
Verifies(k, roots) == roots[k] = events.Hash

\* bundle k ends the search for its account: it is at or below the target, or
\* its proof does not verify
Halts(k, roots) == BundleNonce(k) <= BundleTarget(k) \/ ~Verifies(k, roots)

\* the account of bundle k is still searched for when the call reaches k
Searching(k, roots) ==
    /\ BundleAccount(k) \in basicChannelScanAccounts
    /\ \A j \in 1..(k - 1) : BundleAccount(j) = BundleAccount(k) => ~Halts(j, roots)

\* no bundle of the call ends the search for account a
NeverHalted(a, roots) ==
    \A j \in 1..Len(events.Bundles) : BundleAccount(j) = a => ~Halts(j, roots)

\* the call returns the proof of bundle k
HasProofOf(r, k) ==
    \E i \in 1..Len(r.proofs) :
       r.proofs[i].Request.Index = k - 1 /\ r.proofs[i].Bundle = events.Bundles[k]

\* a proof whose root differs from the digest item's hash, within one call of
\* the fetcher: the call returns no error, the bundle's account leaves the scan
\* set and the bundle is not collected, every other bundle of the call that is
\* due (before and after it) is collected, and accounts no bundle halts stay
\* in the scan set
MismatchIsSoftInCall ==
    CallPending =>
      \A roots \in CallRoots :
         LET r == CallResult(roots)
             n == Len(events.Bundles)
         IN
         (\A k \in 1..n : roots[k] # RpcError) =>
           /\ ~r.err
           /\ \A k \in 1..n :
                (/\ Searching(k, roots)
                 /\ BundleNonce(k) >= BundleTarget(k)
                 /\ ~Verifies(k, roots)) =>
                  /\ BundleAccount(k) \notin r.accounts
                  /\ ~HasProofOf(r, k)
                  /\ \A j \in (1..n) \ {k} :
                       (/\ Searching(j, roots)
                        /\ BundleNonce(j) >= BundleTarget(j)
                        /\ Verifies(j, roots)) => HasProofOf(r, j)
                  /\ \A b \in basicChannelScanAccounts :
                       NeverHalted(b, roots) => b \in r.accounts

\* the step of the walk in which an account is marked done for a proof root
\* that does not verify
MismatchStep ==
    \E a \in Accounts : doneReason[a] = "searching" /\ doneReason'[a] = "mismatch"

C14_CollectAndDone ==
    CallPending =>
      \A roots \in CallRoots :
         LET r == CallResult(roots)
             n == Len(events.Bundles)
         IN
         ~r.err =>
           /\ \A k \in 1..n :
                (Searching(k, roots) /\ Verifies(k, roots)) =>
                  /\ BundleNonce(k) > BundleTarget(k) =>
                       /\ HasProofOf(r, k)
                       /\ NeverHalted(BundleAccount(k), roots) =>
                            BundleAccount(k) \in r.accounts
                  /\ BundleNonce(k) = BundleTarget(k) =>
                       /\ HasProofOf(r, k)
                       /\ BundleAccount(k) \notin r.accounts
           /\ \A h \in Range(r.halts) :
                h.why = "found" =>
                  \E p \in Range(r.proofs) :
                     /\ p.Bundle.Account = h.account
                     /\ p.Bundle.Nonce = basicChannelAccountNonces[h.account]

C14_Witness ==
    /\ ScanSucceeded
    /\ \E a \in Accounts :
          /\ doneReason[a] = "found"
          /\ \E p, q \in ProofsOf(result) :
                /\ p.Bundle.Account = a /\ p.Bundle.Nonce = ethBasicNonce[a] + 1
                /\ q.Bundle.Account = a /\ q.Bundle.Nonce > ethBasicNonce[a] + 1

\* C15: a bundle of a still-searched account below the account's target makes
\* the account leave the scan set, is not collected and no proof is asked for
\* it; no task holds a proof of a nonce below its account's target.
C15_BelowTargetHalts ==
    /\ CallPending =>
         \A roots \in CallRoots :
            LET r == CallResult(roots)
            IN
            \A k \in 1..Len(events.Bundles) :
               (Searching(k, roots) /\ BundleNonce(k) < BundleTarget(k)) =>
                 /\ (k - 1) \notin Range(r.fetches)
                 /\ ~HasProofOf(r, k)
                 /\ ~r.err => BundleAccount(k) \notin r.accounts
    /\ \A p \in ProofsOf(AllTasks) :
          p.Bundle.Nonce >= basicChannelAccountNonces[p.Bundle.Account]

C15_Witness ==
    /\ ScanSucceeded
    /\ result = <<>>
    /\ examined # {}
    /\ \E a \in Accounts : Mismatched = {a} /\ doneReason[a] = "below"

\* C16: a failure of the nonce comparison, of the walk or of a proof request
\* ends the scan at once: whenever Scan reports an error it has returned, with
\* no task list, and the tasks built before the failure are not returned.
C16_AtomicFailure ==
    err # "none" => (pc = "done" /\ result = <<>>)

C16_Witness == pc = "done" /\ err = "Rpc" /\ discarded /\ result = <<>>

\* C17: when the caller's context is cancelled while a scan is in progress,
\* the scan ends with an error (the cancellation error, unless another failure
\* comes first) and returns no task list.
C17_CancellationAborts ==
    (pc = "done" /\ cancelled) => (err # "none" /\ result = <<>>)

\* C20: the walk inspects the parachain blocks in descending order from the
\* number N of the starting head, each at most once: while it runs, the blocks
\* inspected so far are exactly those between the current block and N, the
\* block being inspected lies in [1, N], and neither block 0 nor a block above
\* N is ever inspected; every task's header number lies in [1, N].
C20_DescendingWalk ==
    /\ pc \in {"walk", "item"} =>
         /\ currentBlockNumber <= lastParaBlockNumber
         /\ examined = (currentBlockNumber + 1)..lastParaBlockNumber
    /\ pc = "item" =>
         /\ currentBlockNumber \in 1..lastParaBlockNumber
         /\ header.Number = currentBlockNumber
    /\ examined \subseteq 1..lastParaBlockNumber
    /\ \A i \in 1..Len(AllTasks) :
          AllTasks[i].Header.Number \in 1..lastParaBlockNumber

C20_Witness ==
    /\ ScanSucceeded
    /\ lastParaBlockNumber = MaxBlock
    /\ examined = 1..MaxBlock
    /\ Len(result) >= 1

C21_NotRegisteredFails ==
    headAbsent =>
      /\ pc = "done"
      /\ err = "NotRegistered"
      /\ result = <<>>
      /\ ~compared
      /\ examined = {}

C21_Witness == headAbsent /\ pc = "done" /\ beefyBlockNumber >= 1

\* the proof items folded over the leaf up to level n, the sibling of level
\* i going to the left at the levels the prover set
RECURSIVE FoldedTo(_)
FoldedTo(n) ==
    IF n = 0 THEN leafNodeHash
    ELSE IF (n - 1) \in siblingLeftAt
         THEN keccak256(merkleProofItems[n], FoldedTo(n - 1))
         ELSE keccak256(FoldedTo(n - 1), merkleProofItems[n])

\* C22: calculateMerkleRoot folds the proof items over the leaf: at level i
\* the sibling is hashed to the left of the current hash when bit i of the
\* bit field is 1 and to the right when it is 0; with no items the leaf is
\* returned unchanged; verifyMerkleRoot returns true exactly when the
\* computed value equals the supplied root.
C22_MerkleFold ==
    /\ mpc = "loop" => currentHash = FoldedTo(currentPosition)
    /\ mpc = "returned" =>
          /\ merkleRoot = FoldedTo(Len(merkleProofItems))
          /\ (merkleProofItems = <<>> => merkleRoot = leafNodeHash)
          /\ (verified <=> merkleRoot = root)

\* a two-level proof with the sibling left at level 0 and right at level 1
\* has been verified against its root
C22_Witness ==
    /\ mpc = "returned"
    /\ Len(merkleProofItems) = 2
    /\ 0 \in siblingLeftAt /\ 1 \notin siblingLeftAt
    /\ verified

\* the commitment of block b carries a message Ethereum has not accepted
Missed(b) ==
    /\ parachain[b].channel # "none"
    /\ \E k \in 1..parachain[b].count :
          NonceBefore(parachain, parachain[b].channel, b) + k
              > delivered[parachain[b].channel]

\* C23: a catch-up that returns without an error has passed to
\* processDigestItem the commitment of every block up to latestBlock that
\* carries a message with a nonce above the nonce delivered on Ethereum for
\* its channel, the oldest block first.
C23_RelaysAllMissed ==
    (lpc = "done" /\ catchupErr = "none") =>
        /\ \A b \in 0..latestBlock :
              Missed(b) => \E k \in DOMAIN processed : processed[k].block = b
        /\ \A j, k \in DOMAIN processed :
              j < k => processed[j].block < processed[k].block

\* C24: every scan terminates.  The walk makes at most N iterations, N the
\* number of the starting head: each iteration, one that skips a block
\* without digest items included, lowers the block number by one, and the
\* walk goes on to gatherProofInputs only when no account is searched for or
\* the block number is 0, and then makes no further iteration.  The inclusion
\* search makes at most 4 relay-block lookups for a task.
C24_Terminates ==
    /\ <>(pc = "done")
    /\ [](pc \in {"walk", "item"} =>
            /\ Cardinality(examined) <= lastParaBlockNumber
            /\ Cardinality(examined) = lastParaBlockNumber - currentBlockNumber)
    /\ [](pc = "lookup" => relayI - startBlock <= 4)
    /\ [][/\ examined' # examined =>
               (currentBlockNumber' = currentBlockNumber - 1 /\ currentBlockNumber > 0)
          /\ (pc = "walk" /\ (pc' = "item" \/ examined' # examined)) =>
               (currentBlockNumber > 0 /\ basicChannelScanAccounts # {})
          /\ (pc = "walk" /\ pc' = "gather") =>
               (basicChannelScanAccounts = {} \/ currentBlockNumber = 0)
          /\ (pc = "lookup" /\ relayI' # relayI /\ pc' = "lookup") =>
               (relayI' = relayI + 1 /\ relayI' - startBlock <= 4)]_vars

\* a scan from the highest head walked down to block 1 and gave up the
\* inclusion search of a task after the last lookup
C24_Witness ==
    /\ pc = "done"
    /\ lastParaBlockNumber = MaxBlock
    /\ examined = 1..MaxBlock
    /\ gatherErr = "scan terminated"

\* C25: every call of the fetcher that returns without an error returns
\* scanDone true exactly when the scan set it leaves is empty; at every test
\* of the walk's loop scanBasicChannelDone is true exactly when the scan set
\* is empty; the walk starts no iteration with an empty scan set, and with a
\* non-empty one it leaves the loop only after inspecting block 1.
C25_DoneFlagIsEmptySet ==
    /\ [](CallPending =>
            \A roots \in CallRoots :
               LET r == CallResult(roots)
               IN ~r.err => (r.scanDone <=> r.accounts = {}))
    /\ [](pc \in {"walk", "item"} =>
            (scanBasicChannelDone <=> basicChannelScanAccounts = {}))
    /\ [][/\ (pc = "walk" /\ (pc' = "item" \/ examined' # examined)) =>
               basicChannelScanAccounts # {}
          /\ (pc = "walk" /\ pc' = "gather" /\ basicChannelScanAccounts # {}) =>
               (currentBlockNumber = 0 /\ examined = 1..lastParaBlockNumber)]_vars

\* the loop test finds every account done above block 0, after a block in
\* which the last two accounts were marked
C25_Witness ==
    /\ pc = "walk"
    /\ currentBlockNumber >= 1
    /\ scanBasicChannelDone
    /\ basicChannelScanAccounts = {}
    /\ \A a \in Accounts : doneReason[a] \notin {"none", "searching"}

\* C26: Done is absorbing.  While the walk runs the scan set only shrinks and
\* holds no account that was marked done (found, below its target, or for a
\* proof root that does not verify); in a call of the fetcher no bundle of an
\* account outside the scan set, or of an account an earlier bundle of the
\* call has marked, has a proof requested or collected; and the step of the
\* walk adds to the block's proofs only bundles of accounts that were in the
\* scan set before it.
C26_DoneAbsorbing ==
    /\ [](pc \in {"walk", "item"} =>
            \A a \in Accounts :
               doneReason[a] \in {"found", "below", "mismatch"} =>
                  a \notin basicChannelScanAccounts)
    /\ [](CallPending =>
            \A roots \in CallRoots :
               LET r == CallResult(roots)
               IN /\ r.accounts \subseteq basicChannelScanAccounts
                  /\ \A k \in 1..Len(events.Bundles) :
                        ~Searching(k, roots) =>
                           /\ (k - 1) \notin Range(r.fetches)
                           /\ ~HasProofOf(r, k))
    /\ [][(pc \in {"walk", "item"} /\ pc' \in {"walk", "item"}) =>
            /\ basicChannelScanAccounts' \subseteq basicChannelScanAccounts
            /\ \A a \in Accounts :
                  doneReason[a] \in {"found", "below", "mismatch"} =>
                     doneReason'[a] = doneReason[a]
            /\ \A p \in Range(basicChannelProofs') :
                  p.Bundle.Account \in basicChannelScanAccounts
                     \/ p \in Range(basicChannelProofs)]_vars

\* below the starting head the fetcher was called for a block and collected
\* proofs, but none for a bundle above its account's target in that block's
\* event: the account had been marked done
C26_Witness ==
    /\ pc = "item"
    /\ itemIndex > digestLen
    /\ currentBlockNumber < lastParaBlockNumber
    /\ blockFetched # <<>>
    /\ \E k \in 1..Len(events.Bundles) :
          /\ BundleAccount(k) \in DOMAIN basicChannelAccountNonces
          /\ BundleNonce(k) > BundleTarget(k)
          /\ doneReason[BundleAccount(k)] = "found"
          /\ \A p \in Range(blockFetched) : p.Bundle # events.Bundles[k]

\* C27: the walk sees a fixed target per account.  From the nonce comparison
\* to the return of Scan the map of nonces to find is the one the comparison
\* computed from the nonces it read, the scan set lies within its accounts,
\* and no step of the walk, the fetcher or the inclusion search changes the
\* map or reads a nonce on Ethereum.
C27_FixedTargets ==
    /\ []((compared /\ pc # "idle") =>
            /\ basicChannelAccountNonces = NoncesToFind(ethBasicNonce, paraBasicNonce)
            /\ basicChannelScanAccounts \subseteq DOMAIN basicChannelAccountNonces)
    /\ [][(pc \in {"walk", "item", "gather", "lookup"}) =>
            /\ basicChannelAccountNonces' = basicChannelAccountNonces
            /\ ethBasicNonce' = ethBasicNonce
            /\ compared' = compared]_vars

\* the inclusion search is under way after a walk that marked an account
\* done and left another one searched for down to block 0
C27_Witness ==
    /\ pc = "lookup"
    /\ examined = 1..MaxBlock
    /\ DOMAIN basicChannelAccountNonces = Accounts
    /\ \E a, b \in Accounts :
          doneReason[a] = "found" /\ doneReason[b] = "searching"

\* C28: findInclusionBlockNumber examines the relay blocks start .. start+3
\* in ascending order, start = relay_parent_number + 1, and returns the first
\* of them whose head has the number of the task's block: the block it is
\* about to examine is one of the four, each lookup without a match moves to
\* the next block, a match returns the block just examined, and the search
\* gives up only when all four have been examined.
C28_InclusionWindow ==
    /\ [](pc = "lookup" => relayI - startBlock \in 0..4)
    /\ [][(pc = "lookup") =>
            /\ (pc' = "lookup" /\ relayI' # relayI) =>
                  (relayI' = relayI + 1 /\ relayI - startBlock \in 0..3)
            /\ (pc' = "gather") =>
                  /\ relayI - startBlock \in 0..3
                  /\ tasks'[taskIndex].ProofInput[1].RelayBlockNumber = relayI
                  /\ tasks[taskIndex].Header.Number
                        = tasks'[taskIndex].ProofInput[1].ParaHeads[
                             Len(tasks'[taskIndex].ProofInput[1].ParaHeads)].Number
            /\ (gatherErr' = "scan terminated") =>
                  relayI - startBlock = 4]_vars

\* C29: a task is emitted for a visited block exactly when a bundle proof
\* was collected at that block: the iteration that leaves a block appends one
\* task if the fetcher returned a proof for the block and none otherwise, the
\* task's header is the header of that block, every task carries at least
\* one proof, and no two tasks are of the same block.
C29_TaskIffProof ==
    /\ [](/\ \A i \in 1..Len(AllTasks) : Len(AllTasks[i].BasicChannelProofs) >= 1
          /\ \A i, j \in 1..Len(AllTasks) :
                i # j => AllTasks[i].Header.Number # AllTasks[j].Header.Number)
    /\ [][(pc = "item" /\ pc' = "walk") =>
            /\ (blockFetched # <<>>) <=> (Len(tasks') = Len(tasks) + 1)
            /\ (blockFetched = <<>>) => (tasks' = tasks)
            /\ (Len(tasks') = Len(tasks) + 1) =>
                  /\ tasks'[Len(tasks')].Header = header
                  /\ header.Number = currentBlockNumber
                  /\ SubSeq(tasks', 1, Len(tasks)) = tasks]_vars

\* C30: the bundles of a commitment are inspected in the order of the
\* event's bundle list.  In every call of the fetcher the proof requests go
\* up in bundle index, every bundle that is due (its account searched for,
\* its nonce not below the target) is requested at its position in the full
\* list, every returned proof was requested for the commitment with the
\* position of its bundle in the full list, and the returned proofs go up in
\* bundle index; so do the proofs of every task.
C30_BundleIndexOrder ==
    /\ CallPending =>
          \A roots \in CallRoots :
             LET r == CallResult(roots)
                 n == Len(events.Bundles)
             IN
             /\ \A i, j \in 1..Len(r.fetches) : i < j => r.fetches[i] < r.fetches[j]
             /\ ~r.err =>
                   \A k \in 1..n :
                      (Searching(k, roots) /\ BundleNonce(k) >= BundleTarget(k))
                         <=> (k - 1) \in Range(r.fetches)
             /\ \A i \in 1..Len(r.proofs) :
                   LET p == r.proofs[i]
                   IN /\ p.Request.Commitment = events.Hash
                      /\ p.Request.Index \in Range(r.fetches)
                      /\ p.Request.Index + 1 \in 1..n
                      /\ events.Bundles[p.Request.Index + 1] = p.Bundle
             /\ \A i, j \in 1..Len(r.proofs) :
                   i < j => r.proofs[i].Request.Index < r.proofs[j].Request.Index
    /\ \A t \in 1..Len(AllTasks) :
          \A i, j \in 1..Len(AllTasks[t].BasicChannelProofs) :
             i < j => AllTasks[t].BasicChannelProofs[i].Request.Index
                        < AllTasks[t].BasicChannelProofs[j].Request.Index

\* a returned task holds the proof of the second bundle of its commitment
\* only: the first bundle, of an account that is not searched for, was
\* skipped and still counted
C30_Witness ==
    /\ ScanSucceeded
    /\ \E a \in Accounts : DOMAIN basicChannelAccountNonces = {a}
    /\ \E t \in 1..Len(result) :
          /\ Len(result[t].BasicChannelProofs) = 1
          /\ result[t].BasicChannelProofs[1].Request.Index = 1

\* the bundles the fixed chain commits in blocks 1..n, oldest first
RECURSIVE CommittedUpTo(_)
CommittedUpTo(n) ==
    IF n = 0 THEN <<>>
    ELSE CommittedUpTo(n - 1) \o chain.blocks[n].event.Bundles

\* the nonces of the bundles of account a in a list of bundles
NoncesOf(a, bundles) ==
    LET own == SelectSeq(bundles, LAMBDA x : x.Account = a)
    IN [k \in 1..Len(own) |-> own[k].Nonce]

RECURSIVE ProofBundles(_)
ProofBundles(ts) ==
    IF ts = <<>> THEN <<>>
    ELSE TaskBundles(Head(ts)) \o ProofBundles(Tail(ts))

\* the fixed chain commits every account's bundles with consecutive nonces
\* in increasing block order, every block with a commitment has its event,
\* every digest item and every proof root is the event's hash, and the
\* bundles of every account that is searched for reach from its target or
\* below to its target or above
ChainCommitsInOrder ==
    LET n == chain.head.Number
    IN /\ n >= 1
       /\ \A b \in 1..n :
             LET blk == chain.blocks[b]
             IN /\ blk.items # <<>> => blk.event.Present
                /\ \A i \in 1..Len(blk.items) :
                      blk.items[i].IsCommitment => blk.items[i].Hash = blk.event.Hash
                /\ \A k \in 1..Len(blk.roots) : blk.roots[k] = blk.event.Hash
       /\ \A a \in Accounts :
             LET ns == NoncesOf(a, CommittedUpTo(n))
             IN /\ \A k \in 1..(Len(ns) - 1) : ns[k + 1] = ns[k] + 1
                /\ a \in DOMAIN basicChannelAccountNonces =>
                      /\ ns # <<>>
                      /\ ns[1] <= basicChannelAccountNonces[a]
                      /\ ns[Len(ns)] >= basicChannelAccountNonces[a]

\* C31: gap-free collection.  On a chain that commits in order, a scan that
\* returns tasks returns, for every account a that is searched for, proofs
\* whose nonces read in task order are target(a), target(a)+1, ..., h, each
\* once, h the nonce of the newest bundle of a up to the starting head.
C31_GapFree ==
    (scenario = "fixed" /\ ScanSucceeded /\ compared /\ ChainCommitsInOrder) =>
       \A a \in DOMAIN basicChannelAccountNonces :
          LET ns == NoncesOf(a, CommittedUpTo(chain.head.Number))
              h == ns[Len(ns)]
              target == basicChannelAccountNonces[a]
          IN NoncesOf(a, ProofBundles(result))
               = [k \in 1..(h - target + 1) |-> target + k - 1]

\* C32: the height whose relay block hash Scan asks for is
\* beefyBlockNumber - 1 computed without wrapping around 2^64: it is never
\* 2^64 - 1, and Scan called with 0 asks for no height above its argument.
C32_NoWrapAtZero ==
    pc # "idle" =>
       /\ beefyBlockMinusOne # Top64
       /\ beefyBlockMinusOne <= beefyBlockNumber

\* does adding k to the uint32 a pass 2^32 (two's complement: the sum of a
\* value of the upper half and k is a value of the lower half)
Wraps32(a, k) == a < 0 /\ a + k >= 0

\* C33: for every uint32 relay_parent_number the window of the inclusion
\* search is relay_parent_number + 1 .. relay_parent_number + 4 without
\* wrapping modulo 2^32: the upper bound start + 4 does not pass 2^32, and
\* a search that gives up has examined the four blocks of the window.
C33_WindowDoesNotWrap ==
    /\ [](pc = "lookup" => ~Wraps32(startBlock, FinalizationTimeout))
    /\ [][(pc = "lookup" /\ gatherErr' = "scan terminated") =>
             relayI = startBlock + FinalizationTimeout]_vars

\* the peaks bagged from the first to the n-th: H(...H(H(p1, p2), p3)..., pn)
RECURSIVE Bagged(_, _)
Bagged(peaks, n) ==
    IF n = 1 THEN peaks[1] ELSE keccak256(Bagged(peaks, n - 1), peaks[n])

\* the list the root of an inclusion proof is folded from
PeaksOfProof ==
    LET n == Len(restOfThePeaks)
    IN (IF rightBaggedPeak = NoHash THEN <<>> ELSE <<rightBaggedPeak>>)
          \o <<FoldedTo(Len(merkleProofItems))>>
          \o [i \in 1..n |-> restOfThePeaks[n + 1 - i]]

\* C34: verifyInclusionProof reverts when the proof has 64 items or more;
\* otherwise it returns true exactly when root is the left fold H(bag, next)
\* over the right bagged peak if it is not zero, then the merkle root of the
\* leaf, then the rest of the peaks in reverse; a zero right bagged peak is
\* left out.
C34_InclusionFold ==
    /\ (caller = "verifyInclusionProof" /\ mpc # "verifyInclusionProof") =>
          ((mpc = "reverted") <=> (Len(merkleProofItems) >= 64))
    /\ mpc = "inclusionReturned" =>
          /\ verified <=> (root = Bagged(PeaksOfProof, Len(PeaksOfProof)))
          /\ (rightBaggedPeak = NoHash) =>
                Len(reversedPeaks) = 1 + Len(restOfThePeaks)

\* a proof with a right bagged peak, a one-item merkle proof and two more
\* peaks has been verified against its root
C34_Witness ==
    /\ mpc = "inclusionReturned"
    /\ rightBaggedPeak # NoHash
    /\ Len(merkleProofItems) = 1
    /\ Len(restOfThePeaks) = 2
    /\ verified

\* a proof of 64 items has been rejected
C34_Reverted == mpc = "reverted" /\ Len(merkleProofItems) = 64

\* the nonce of channel c on the parachain, an absent storage entry counting
\* as 0 for that channel
StoredOrZero(c) ==
    IF NonceStorageLatest(parachain, c) = NotFound THEN 0
    ELSE NonceStorageLatest(parachain, c)

\* C35: catchupMissedCommitments returns without searching exactly when the
\* nonce delivered on Ethereum equals the parachain nonce on both channels,
\* an absent storage entry counting as 0 for its own channel only and the
\* other channel's nonce staying as it was read.
C35_EarlyReturnIffEqual ==
    [][(lpc = "idle" /\ catchupErr' = "none") =>
          ((lpc' = "done") <=> (\A c \in Channels : delivered[c] = StoredOrZero(c)))]_vars

\* a step of the search that inspects a block
Inspects == lpc = "search" /\ lostBlockNumber' # lostBlockNumber

\* C36: searchForLostCommitments inspects lastBlockNumber first and then one
\* block lower at each iteration, so strictly descending and no block twice;
\* it inspects no block once the delivered nonce was found on both channels
\* or block 0 was inspected; it terminates; and it appends no digest item
\* of a channel whose nonce was found at a higher block.
C36_DescendingSearch ==
    /\ <>(lpc = "done")
    /\ [][(lpc = "idle" /\ lpc' = "search") => lostBlockNumber' = latestBlock + 1]_vars
    /\ [][Inspects =>
            /\ lostBlockNumber' = lostBlockNumber - 1
            /\ lostBlockNumber' \in 0..latestBlock
            /\ ~(basicNonceFound /\ incentivizedNonceFound)]_vars
    /\ [][(lpc = "search" /\ lpc' = "search" /\ digestItems' # digestItems) =>
            /\ Len(digestItems') = Len(digestItems) + 1
            /\ LET item == digestItems'[Len(digestItems')]
               IN /\ item.block = lostBlockNumber'
                  /\ item.ChannelID = "basic" => ~basicNonceFound
                  /\ item.ChannelID = "incentivized" => ~incentivizedNonceFound]_vars

\* the search stopped above block 0 with the delivered nonce found on both
\* channels and a commitment to relay
C36_Witness ==
    /\ lpc = "process"
    /\ basicNonceFound /\ incentivizedNonceFound
    /\ lostBlockNumber > 0
    /\ digestItems # <<>>

\* the commands sent for item i
CommandsFor(i) == {k \in DOMAIN dbMessages : dbMessages[k].item.ID = i}

\* C37: in live mode an Update command to InitialVerificationTxConfirmed is
\* sent only for an InitialVerificationSuccessful event of a handled block
\* whose prover is this relayer and whose item has the status
\* InitialVerificationTxSent; its complete_on_block is the event's block
\* number plus BLOCK_WAIT_PERIOD; no command is sent for an item of another
\* status.
C37_ConfirmsOwnSentOnly ==
    /\ \A k \in DOMAIN dbMessages :
          dbMessages[k].Type = "Update" =>
             /\ dbMessages[k].status = "InitialVerificationTxConfirmed"
             /\ dbMessages[k].item.ID \in ItemIds
             /\ \E b \in 1..liveBlockNumber :
                   /\ ethEvents[b].Kind = "InitialVerificationSuccessful"
                   /\ ethEvents[b].Prover = "relayer"
                   /\ ethEvents[b].TxHash = InitialTx(dbMessages[k].item.ID)
                   /\ dbMessages[k].complete_on_block = b + blockWaitPeriod
    /\ \A i \in ItemIds :
          beefyDB[i].Status # "InitialVerificationTxSent" => CommandsFor(i) = {}

\* an Update was sent for a sent item after a wait period of one block,
\* while an event of another prover for the other sent item was passed over
C37_Witness ==
    /\ blockWaitPeriod = 1
    /\ liveBlockNumber = MaxEthBlock
    /\ epc = "select"
    /\ \E i, j \in ItemIds :
          /\ CommandsFor(i) # {} /\ CommandsFor(j) = {}
          /\ beefyDB[j].Status = "InitialVerificationTxSent"
          /\ \E b \in 1..MaxEthBlock :
                ethEvents[b].TxHash = InitialTx(j) /\ ethEvents[b].Prover = "other"

\* the items a step sends on beefyMessages
Forwarded == SubSeq(beefyMessages', Len(beefyMessages) + 1, Len(beefyMessages'))

\* C38: an item is forwarded as ReadyToComplete only if its status is
\* InitialVerificationTxConfirmed and CompleteOnBlock + descendantsUntilFinal
\* is at most the number of the current block; its RandomSeed is the hash of
\* block CompleteOnBlock; an item whose completion block has not been
\* reached is not forwarded as ReadyToComplete.
C38_ReadyWhenDue ==
    [][\A k \in DOMAIN Forwarded :
          Forwarded[k].Status = "ReadyToComplete" =>
             /\ beefyDB[Forwarded[k].ID].Status = "InitialVerificationTxConfirmed"
             /\ beefyDB[Forwarded[k].ID].CompleteOnBlock + descendantsUntilFinal
                   <= liveBlockNumber
             /\ Forwarded[k].RandomSeed
                   = BlockHash(beefyDB[Forwarded[k].ID].CompleteOnBlock)]_vars

\* one confirmed item was forwarded as ReadyToComplete at the block it
\* became due at, the other confirmed item is not due and was not forwarded
C38_Witness ==
    /\ descendantsUntilFinal = 1
    /\ \E i, j \in ItemIds :
          /\ beefyDB[i].Status = "InitialVerificationTxConfirmed"
          /\ beefyDB[j].Status = "InitialVerificationTxConfirmed"
          /\ beefyDB[i].CompleteOnBlock + 1 = liveBlockNumber
          /\ beefyDB[j].CompleteOnBlock + 1 > liveBlockNumber
          /\ \E k \in DOMAIN beefyMessages :
                beefyMessages[k].ID = i /\ beefyMessages[k].Status = "ReadyToComplete"
          /\ \A k \in DOMAIN beefyMessages : beefyMessages[k].ID # j

\* C39: in live mode, when the block of a handled header has a
\* FinalVerificationSuccessful event of this relayer for an item of status
\* CompleteVerificationTxSent, a Delete command for the item is eventually
\* sent.
C39_DeleteEventually ==
    \A b \in 1..MaxEthBlock : \A i \in ItemIds :
       (/\ epc = "header" /\ liveBlockNumber = b
        /\ ethEvents[b].Kind = "FinalVerificationSuccessful"
        /\ ethEvents[b].Prover = "relayer"
        /\ ethEvents[b].TxHash = FinalTx(i)
        /\ beefyDB[i].Status = "CompleteVerificationTxSent")
       ~> (\E k \in DOMAIN dbMessages :
              dbMessages[k].Type = "Delete" /\ dbMessages[k].item.ID = i)

\* C40: once the context is cancelled subBeefyJustifications eventually
\* returns, having closed li.messages exactly once, also when it is in the
\* middle of the loop over the message packages and the consumer has stopped
\* receiving; no package is sent on li.messages after the close.
C40_ShutdownCloses ==
    /\ bctxDone ~> (bpc = "returned" /\ closes = 1)
    /\ [](closes <= 1)
    /\ [][closes >= 1 => sent' = sent]_vars

====
